---- MODULE Spec2Model ----
(***************************************************************************)
(* sdrpp-noise-reduction: UDP ingest -> raw queue -> DSP -> processed      *)
(* queue -> sounddevice output callback, with an interactive command       *)
(* thread and a shared running flag.                                       *)
(*                                                                         *)
(* The module holds these specifications over one set of variables:        *)
(*   SpecQueue     one queue.Queue, one producer in put_with_drop_on_full, *)
(*                 one consumer (get / get_nowait)                         *)
(*   SpecCallback  audio_callback and its leftover buffer, fed by the      *)
(*                 processing thread's pushes                              *)
(*   SpecCallbackFair  SpecCallback with the fairness of the callback      *)
(*   SpecProc      the process_audio loop and the noise profile            *)
(*   SpecLife      the four threads' loops and the running flag            *)
(*   SpecLifeFair  SpecLife with the fairness of the threads' own steps    *)
(*   SpecConfig    NoiseReductionConfig: get_all against setter calls      *)
(*   SpecSetters   every setter of NoiseReductionConfig, any input         *)
(*   SpecCmd       the command prompt: handle_command on typed lines       *)
(*   SpecChunk     process_audio's cycle under any configuration snapshot  *)
(*   SpecUdp       receive_udp_audio's reassembly of datagrams into frames *)
(*   SpecPipe      the frames' way through both queues, from the           *)
(*                 reassembler to the callback                             *)
(* Each specification leaves the variables of the components it does not  *)
(* run at their initial values.                                            *)
(***************************************************************************)
EXTENDS Integers, Sequences, FiniteSets, TLC

VARIABLES
    \* ---- queue.Queue under put_with_drop_on_full (utils.py) ----
    q,              \* the queue's items, head first
    maxsize,        \* queue.Queue(maxsize=...)
    p_pc,           \* producer: "idle" | "put" | "get_nowait" | "put2"
    p_item,         \* the item of the call in progress (0: none yet)
    p_calls,        \* calls of put_with_drop_on_full started so far
    p_raised,       \* the last call ended by raising queue.Full
    c_acted,        \* the consumer has dequeued at least once
    \* ---- audio_callback (audio_output.py) ----
    processed_audio_queue,  \* frames (sequences of samples), head first
    audio_buffer,   \* module global: the leftover samples
    cb_pc,          \* "idle" | "loop" | "deliver"
    cb_frames,      \* the `frames` argument of the invocation
    outdata,        \* outdata[:, 0] as written by the last invocation
    cb_entry_len,   \* len(audio_buffer) when the invocation began
    cb_deq_total,   \* samples dequeued by the invocation
    cb_zeros,       \* zero samples inserted by the invocation
    cb_last_chunk,  \* length of the last chunk the invocation dequeued
    cb_max_chunk,   \* length of the longest chunk the invocation dequeued
    cb_returned,    \* an invocation has returned
    fed,            \* frames pushed to processed_audio_queue so far
    next_sample,    \* the next sample value to be produced
    cb_dequeued,    \* history: the frames the callback dequeued, concatenated
    cb_played,      \* history: every outdata so far without its silence
    \* ---- process_audio (audio_processor.py) ----
    config,         \* NoiseReductionConfig fields
    pa_pc,          \* "check" | "get" | "snapshot" | "chunk" | "put" | "done"
    audio_data,     \* the raw frame being processed
    cfg,            \* the snapshot config.get_all() returned
    noise_samples,  \* list of accumulated frames
    samples_collected,
    samples_needed,
    noise_profile_initialized,
    noise_profile,  \* <<>> models None
    frames_in,      \* raw frames dequeued so far
    pa_out,         \* processed frames pushed so far (frame numbers)
    pa_errors,      \* cycles that ended in an exception
    bandpass_filter_cache_key,  \* <<>> models None, else <<low, high, rate>>
    bandpass_filter_coeffs,     \* <<>> models None, else the designed band
    bandpass_filter_state,      \* <<>> models None, else <<0>> (lfilter_zi)
                                \* followed by the frames filtered since
    processed_audio,    \* what process_audio_chunk last returned
    pa_trace,       \* what the last call of process_audio_chunk invoked
    pa_raised,      \* the frames whose cycle ended in an exception
    \* ---- threads and the running flag (cli.py, commands.py, udp_receiver.py) ----
    running,        \* RunningFlag._value
    main_pc,        \* "create" | "start" | "check" | "sleep" | "finally" | "exit"
    stream,         \* "none" | "created" | "started" | "closed"
    main_failed,    \* the playback stream could not be created or started
    udp_pc,         \* "bind" | "check" | "recv" | "done" | "crashed"
    sock,           \* "none" | "bound" | "closed"
    lp_pc,          \* process_audio's loop: "check" | "get" | "done"
    cmd_pc,         \* "check" | "input" | "done"
    cmd_last,       \* what input() last gave: "none" | "line" | "quit" | "eof" | "interrupt"
    udp_last,       \* what recvfrom last gave: "none" | "data" | "timeout" | "error"
    lp_last,        \* what the last cycle of process_audio met: "none" | "frame" | "empty"
    \* ---- NoiseReductionConfig and handle_command (config.py, commands.py) ----
    lock,           \* NoiseReductionConfig._lock is held by a get_all in progress
    ga_pc,          \* get_all: "idle" | "reading"
    ga_i,           \* get_all: index of the next field to read
    snap,           \* get_all: the dict built so far
    ga_instants,    \* values the whole field set held during the last get_all
    ga_returned,    \* a get_all has returned
    cmd_outcome,    \* <<what handle_command last did, the kind of line it got>>
    \* ---- receive_udp_audio's reassembly (udp_receiver.py) ----
    buffer,         \* the byte accumulator
    rx_pc,          \* "recv" | "slice"
    udp_stream,     \* every payload byte recvfrom has returned, in order
    emitted,        \* the frames handed to put_with_drop_on_full, in order
    datagrams,      \* datagrams received so far
    \* ---- the frames' way through both queues ----
    pp_pc,          \* process_audio as a relay: "get" | "chunk" | "put" | ...
    pp_item,        \* the frame process_audio holds
    proc_maxsize    \* capacity of processed_audio_queue

qvars == <<q, maxsize, p_pc, p_item, p_calls, p_raised, c_acted>>
cbvars == <<processed_audio_queue, audio_buffer, cb_pc, cb_frames, outdata,
            cb_entry_len, cb_deq_total, cb_zeros, cb_last_chunk, cb_max_chunk,
            cb_returned, fed, next_sample, cb_dequeued, cb_played>>
\* everything of process_audio but the configuration and its snapshot
parest == <<pa_pc, audio_data, noise_samples, samples_collected,
            samples_needed, noise_profile_initialized, noise_profile, frames_in,
            pa_out, pa_errors, bandpass_filter_cache_key,
            bandpass_filter_coeffs, bandpass_filter_state, processed_audio,
            pa_trace, pa_raised>>
pavars == <<config, cfg, parest>>
lifevars == <<running, main_pc, stream, main_failed, udp_pc, sock, lp_pc, cmd_pc,
              cmd_last, udp_last, lp_last>>
cfgvars == <<lock, ga_pc, ga_i, snap, ga_instants, ga_returned, cmd_outcome>>
udpvars == <<buffer, rx_pc, udp_stream, emitted, datagrams>>
\* the processing thread as the relay between the two queues
pipevars == <<pp_pc, pp_item, proc_maxsize>>
vars == <<qvars, cbvars, pavars, lifevars, cfgvars, udpvars, pipevars>>

\* ------------------------------------------------------------------ bounds
MaxCap == 3         \* small queue capacities tried besides the program's two
MaxItems == 22      \* calls of put_with_drop_on_full by the producer
MaxFrameLen == 3    \* longest processed frame fed to the callback
MaxFed == 3         \* processed frames fed to the callback
MaxReq == 3         \* largest `frames` the callback is asked for
MaxN == 3           \* largest noise_profile_samples
FrameLen == 2       \* samples per raw frame in SpecProc
MaxRawFrames == 4   \* raw frames handed to process_audio
FullScale == 4      \* the sample value that stands for 1.0
AUDIO_BUFFER_SIZE == 2  \* constants.AUDIO_BUFFER_SIZE: samples per frame
BUFFER_SIZE == 9    \* constants.BUFFER_SIZE: most bytes recvfrom returns
MaxDatagrams == 5   \* datagrams received
SAMPLE_RATE == 6    \* constants.SAMPLE_RATE in hertz (a small rate stands for it)

\* ------------------------------------------------------------------ program constants
RAW_MAXSIZE == 10
PROC_MAXSIZE == 20
\* constants.SAMPLE_WIDTH: bytes per sample of the 16-bit stream
SAMPLE_WIDTH == 2

Max(a, b) == IF a >= b THEN a ELSE b
Min(a, b) == IF a <= b THEN a ELSE b

\* ------------------------------------------------------------------ initial values
QueueIdle ==
    /\ q = <<>> /\ maxsize = RAW_MAXSIZE /\ p_pc = "idle" /\ p_item = 0
    /\ p_calls = 0 /\ p_raised = FALSE /\ c_acted = FALSE

CallbackIdle ==
    /\ processed_audio_queue = <<>> /\ audio_buffer = <<>> /\ cb_pc = "idle"
    /\ cb_frames = 0 /\ outdata = <<>> /\ cb_entry_len = 0 /\ cb_deq_total = 0
    /\ cb_zeros = 0 /\ cb_last_chunk = 0 /\ cb_max_chunk = 0
    /\ cb_returned = FALSE /\ fed = 0 /\ next_sample = 1
    /\ cb_dequeued = <<>> /\ cb_played = <<>>

\* NoiseReductionConfig as main() builds it from the command line's defaults;
\* numeric fields are in hundredths (0.95 is 95, 100 Hz is 10000 / 100 ...),
\* noise_profile_samples is a count.  The two default cutoffs come from
\* constants.py; any pair parse_arguments accepts will do here.
DefaultConfig(n) ==
    [prop_decrease |-> 95, voice_low_freq |-> 100, voice_high_freq |-> 200,
     spectral_gate_threshold_db |-> -3500, noise_profile_samples |-> n,
     n_std_thresh_stationary |-> 250, use_bandpass |-> TRUE,
     use_spectral_gating |-> FALSE, use_stationary_mode |-> TRUE,
     voice_gain_db |-> 0, noise_reduction_enabled |-> TRUE]

ConfigIdle ==
    /\ lock = FALSE /\ ga_pc = "idle" /\ ga_i = 1 /\ snap = <<>>
    /\ ga_instants = {} /\ ga_returned = FALSE
    /\ cmd_outcome = <<"none", "none">>

\* what process_audio_chunk has invoked before its first call: nothing
NoTrace ==
    [id |-> 0, enabled |-> FALSE, bandpass |-> "off", zi |-> <<>>,
     nr |-> "none", y_noise |-> <<>>, prop_decrease |-> 0, n_std |-> 0,
     gating |-> FALSE, gain |-> FALSE, raised |-> "none"]

\* audio_processor.py lines 10-15 and process_audio lines 169-170
ProcIdleRest ==
    /\ pa_pc = "check" /\ audio_data = <<>>
    /\ noise_samples = <<>> /\ samples_collected = 0
    /\ noise_profile_initialized = FALSE /\ noise_profile = <<>>
    /\ frames_in = 0 /\ pa_out = <<>> /\ pa_errors = 0
    /\ bandpass_filter_cache_key = <<>> /\ bandpass_filter_coeffs = <<>>
    /\ bandpass_filter_state = <<>>
    /\ processed_audio = [stages |-> <<>>, samples |-> <<>>]
    /\ pa_trace = NoTrace /\ pa_raised = {}

\* udp_receiver.py line 17: buffer = b''
UdpIdle ==
    /\ buffer = <<>> /\ rx_pc = "recv" /\ udp_stream = <<>>
    /\ emitted = <<>> /\ datagrams = 0

PipeIdle == pp_pc = "get" /\ pp_item = 0 /\ proc_maxsize = PROC_MAXSIZE

ProcIdle ==
    /\ config = DefaultConfig(1) /\ cfg = config /\ samples_needed = 1
    /\ ProcIdleRest

LifeIdle ==
    /\ running = TRUE /\ main_pc = "create" /\ stream = "none"
    /\ main_failed = FALSE /\ udp_pc = "bind" /\ sock = "none"
    /\ lp_pc = "check" /\ cmd_pc = "check" /\ cmd_last = "none"
    /\ udp_last = "none" /\ lp_last = "none"

(***************************************************************************)
(* SpecQueue: queue.Queue with put_with_drop_on_full                       *)
(***************************************************************************)
Capacities == (1..MaxCap) \cup {RAW_MAXSIZE, PROC_MAXSIZE}

\* queue.Queue.put waits while qsize() >= maxsize
QHasRoom_offbyone(qq, m) == Len(qq) <= m
QHasRoom(qq, m) == Len(qq) < m

\* queue.Queue.put appends at the tail
QAfterPut_front(qq, item) == <<item>> \o qq
QAfterPut(qq, item) == Append(qq, item)

\* queue.Queue.get / get_nowait remove the head
QAfterGet_newest(qq) == SubSeq(qq, 1, Len(qq) - 1)
QAfterGet(qq) == Tail(qq)

QueueInit ==
    /\ q = <<>> /\ maxsize \in Capacities /\ p_pc = "idle" /\ p_item = 0
    /\ p_calls = 0 /\ p_raised = FALSE /\ c_acted = FALSE
    /\ CallbackIdle /\ ProcIdle /\ LifeIdle /\ ConfigIdle /\ UdpIdle
    /\ PipeIdle

\* a step of the queue harness touches nothing else
QueueOnly == UNCHANGED <<cbvars, pavars, lifevars, cfgvars,
                           udpvars, pipevars>>

\* the producer calls put_with_drop_on_full(q, item); items are numbered 1, 2, ...
put_with_drop_on_full_call ==
    /\ p_pc = "idle" /\ p_calls < MaxItems
    /\ p_calls' = p_calls + 1
    /\ p_item' = p_calls + 1
    /\ p_pc' = "put"
    /\ p_raised' = FALSE
    /\ UNCHANGED <<q, maxsize, c_acted>>
    /\ QueueOnly

\* line 7: q.put(item, timeout) finds room
put_with_drop_on_full_put ==
    /\ p_pc = "put" /\ QHasRoom(q, maxsize)
    /\ q' = QAfterPut(q, p_item)
    /\ p_pc' = "idle"
    /\ UNCHANGED <<maxsize, p_item, p_calls, p_raised, c_acted>>
    /\ QueueOnly

\* line 7-8: the queue stayed full for the timeout, queue.Full
put_with_drop_on_full_full ==
    /\ p_pc = "put" /\ ~QHasRoom(q, maxsize)
    /\ p_pc' = "get_nowait"
    /\ UNCHANGED <<q, maxsize, p_item, p_calls, p_raised, c_acted>>
    /\ QueueOnly

\* line 10: q.get_nowait() removes the oldest item
put_with_drop_on_full_get_nowait ==
    /\ p_pc = "get_nowait" /\ q # <<>>
    /\ q' = QAfterGet(q)
    /\ p_pc' = "put2"
    /\ UNCHANGED <<maxsize, p_item, p_calls, p_raised, c_acted>>
    /\ QueueOnly

\* line 10, 12-13: q.get_nowait() raises queue.Empty; `pass`, the call returns
put_with_drop_on_full_empty ==
    /\ p_pc = "get_nowait" /\ q = <<>>
    /\ p_pc' = "idle"
    /\ UNCHANGED <<q, maxsize, p_item, p_calls, p_raised, c_acted>>
    /\ QueueOnly

\* line 11: the second q.put(item, timeout); its queue.Full is not caught
put_with_drop_on_full_put2 ==
    /\ p_pc = "put2"
    /\ IF QHasRoom(q, maxsize)
          THEN q' = QAfterPut(q, p_item) /\ p_raised' = FALSE
          ELSE q' = q /\ p_raised' = TRUE
    /\ p_pc' = "idle"
    /\ UNCHANGED <<maxsize, p_item, p_calls, c_acted>>
    /\ QueueOnly

\* the consumer's q.get(timeout=...) or q.get_nowait() with an item present
consumer_get ==
    /\ q # <<>>
    /\ q' = QAfterGet(q)
    /\ c_acted' = TRUE
    /\ UNCHANGED <<maxsize, p_pc, p_item, p_calls, p_raised>>
    /\ QueueOnly

QueueNext ==
    \/ put_with_drop_on_full_call
    \/ put_with_drop_on_full_put
    \/ put_with_drop_on_full_full
    \/ put_with_drop_on_full_get_nowait
    \/ put_with_drop_on_full_empty
    \/ put_with_drop_on_full_put2
    \/ consumer_get

SpecQueue == QueueInit /\ [][QueueNext]_vars

\* C1: every call of put_with_drop_on_full that returns leaves its item at the
\* tail of the queue.
C1_NewestKept ==
    [][(p_pc # "idle" /\ p_pc' = "idle")
         => (q' # <<>> /\ q'[Len(q')] = p_item)]_vars

\* C2: under every interleaving of pushes and pops a relay queue holds at most
\* its capacity: 10 items in the raw queue, 20 in the processed queue.
C2_Capacity ==
    /\ Len(q) <= maxsize
    /\ (maxsize = RAW_MAXSIZE => Len(q) <= 10)
    /\ (maxsize = PROC_MAXSIZE => Len(q) <= 20)

\* C2 witness: the processed queue is full, its consumer has popped, and the
\* producer's timed put has just failed.
C2_Witness ==
    /\ maxsize = PROC_MAXSIZE /\ Len(q) = PROC_MAXSIZE
    /\ p_pc = "get_nowait" /\ c_acted

\* C3: with no consumer, pushing items 1..C+1 into a queue of capacity C leaves
\* exactly items 2..C+1, in order.
C3_DropOldest ==
    (~c_acted /\ p_pc = "idle" /\ p_calls = maxsize + 1)
        => q = [i \in 1..maxsize |-> i + 1]

\* C3 witness: the overflow push has returned and nothing was consumed.
C3_Witness ==
    /\ ~c_acted /\ p_pc = "idle" /\ p_calls = maxsize + 1
    /\ Len(q) = maxsize /\ q[1] = 2

(***************************************************************************)
(* SpecCallback: audio_callback and the leftover buffer                    *)
(***************************************************************************)
\* np.zeros(n): n samples of silence; produced samples are numbered from 1
Zeros(n) == [i \in 1..n |-> 0]

\* a processed frame of n samples, numbered on from `first`
Chunk(first, n) == [i \in 1..n |-> first + i - 1]

\* line 19: needed = frames - len(audio_buffer)
needed_all(frames, buf) == frames
needed(frames, buf) == frames - Len(buf)

\* line 24: audio_buffer[:frames]
delivered_whole(buf, frames) == buf
delivered(buf, frames) == SubSeq(buf, 1, Min(frames, Len(buf)))

\* line 25: audio_buffer[frames:]
remainder_keep_one(buf, frames) == SubSeq(buf, frames, Len(buf))
remainder(buf, frames) == SubSeq(buf, frames + 1, Len(buf))

\* a sequence without the silence np.zeros inserted (samples are never 0)
WithoutSilence(s) == SelectSeq(s, LAMBDA x : x # 0)

\* line 17: np.concatenate([audio_buffer, chunk])
buffer_concatenate_front(buf, chunk) == chunk \o buf
buffer_concatenate(buf, chunk) == buf \o chunk

\* line 16: Queue.get_nowait() raises queue.Empty at once on an empty queue
\* (a blocking get would wait instead)
GetNowaitRaisesEmpty_blocking(qq) == FALSE
GetNowaitRaisesEmpty(qq) == qq = <<>>

CallbackInit ==
    QueueIdle /\ CallbackIdle /\ ProcIdle /\ LifeIdle /\ ConfigIdle /\ UdpIdle
    /\ PipeIdle

\* a step of the callback harness touches nothing else
CallbackOnly == UNCHANGED <<qvars, pavars, lifevars, cfgvars,
                           udpvars, pipevars>>

\* the processing thread's put_with_drop_on_full(processed_audio_queue, frame)
\* with room in the queue: a frame of 1..MaxFrameLen samples is appended
processed_put ==
    /\ fed < MaxFed
    /\ Len(processed_audio_queue) < PROC_MAXSIZE
    /\ \E n \in 1..MaxFrameLen :
          /\ processed_audio_queue' =
                 Append(processed_audio_queue, Chunk(next_sample, n))
          /\ next_sample' = next_sample + n
    /\ fed' = fed + 1
    /\ UNCHANGED <<audio_buffer, cb_pc, cb_frames, outdata, cb_entry_len,
                   cb_deq_total, cb_zeros, cb_last_chunk, cb_max_chunk,
                   cb_returned, cb_dequeued, cb_played>>
    /\ CallbackOnly

\* the audio subsystem invokes audio_callback(outdata, frames, ...)
audio_callback_enter ==
    /\ cb_pc = "idle"
    /\ \E frames \in 1..MaxReq : cb_frames' = frames
    /\ cb_pc' = "loop"
    /\ cb_entry_len' = Len(audio_buffer)
    /\ cb_deq_total' = 0
    /\ cb_zeros' = 0
    /\ cb_last_chunk' = 0
    /\ cb_max_chunk' = 0
    /\ UNCHANGED <<processed_audio_queue, audio_buffer, outdata, cb_returned,
                   fed, next_sample, cb_dequeued, cb_played>>
    /\ CallbackOnly

\* lines 14-17: len(audio_buffer) < frames and get_nowait() returns a chunk
audio_callback_get_nowait ==
    /\ cb_pc = "loop"
    /\ Len(audio_buffer) < cb_frames
    /\ processed_audio_queue # <<>>
    /\ audio_buffer' =
           buffer_concatenate(audio_buffer, Head(processed_audio_queue))
    /\ cb_dequeued' = cb_dequeued \o Head(processed_audio_queue)
    /\ processed_audio_queue' = QAfterGet(processed_audio_queue)
    /\ cb_deq_total' = cb_deq_total + Len(Head(processed_audio_queue))
    /\ cb_last_chunk' = Len(Head(processed_audio_queue))
    /\ cb_max_chunk' = Max(cb_max_chunk, Len(Head(processed_audio_queue)))
    /\ UNCHANGED <<cb_pc, cb_frames, outdata, cb_entry_len, cb_zeros,
                   cb_returned, fed, next_sample, cb_played>>
    /\ CallbackOnly

\* lines 18-21: get_nowait() raises queue.Empty: pad with zeros and break
audio_callback_empty ==
    /\ cb_pc = "loop"
    /\ Len(audio_buffer) < cb_frames
    /\ GetNowaitRaisesEmpty(processed_audio_queue)
    /\ audio_buffer' = audio_buffer \o Zeros(needed(cb_frames, audio_buffer))
    /\ cb_zeros' = cb_zeros + needed(cb_frames, audio_buffer)
    /\ cb_pc' = "deliver"
    /\ UNCHANGED <<processed_audio_queue, cb_frames, outdata, cb_entry_len,
                   cb_deq_total, cb_last_chunk, cb_max_chunk, cb_returned,
                   fed, next_sample, cb_dequeued, cb_played>>
    /\ CallbackOnly

\* line 14: the while condition is false
audio_callback_loop_exit ==
    /\ cb_pc = "loop"
    /\ Len(audio_buffer) >= cb_frames
    /\ cb_pc' = "deliver"
    /\ UNCHANGED <<processed_audio_queue, audio_buffer, cb_frames, outdata,
                   cb_entry_len, cb_deq_total, cb_zeros, cb_last_chunk,
                   cb_max_chunk, cb_returned, fed, next_sample, cb_dequeued,
                   cb_played>>
    /\ CallbackOnly

\* lines 23-28: write outdata and keep the rest
audio_callback_deliver ==
    /\ cb_pc = "deliver"
    /\ IF Len(audio_buffer) >= cb_frames
          THEN /\ outdata' = delivered(audio_buffer, cb_frames)
               /\ audio_buffer' = remainder(audio_buffer, cb_frames)
               /\ cb_zeros' = cb_zeros
          ELSE /\ outdata' = audio_buffer
                                \o Zeros(cb_frames - Len(audio_buffer))
               /\ audio_buffer' = <<>>
               /\ cb_zeros' = cb_zeros + (cb_frames - Len(audio_buffer))
    /\ cb_played' = cb_played \o WithoutSilence(outdata')
    /\ cb_pc' = "idle"
    /\ cb_returned' = TRUE
    /\ UNCHANGED <<processed_audio_queue, cb_frames, cb_entry_len,
                   cb_deq_total, cb_last_chunk, cb_max_chunk, fed, next_sample,
                   cb_dequeued>>
    /\ CallbackOnly

CallbackNext ==
    \/ processed_put
    \/ audio_callback_enter
    \/ audio_callback_get_nowait
    \/ audio_callback_empty
    \/ audio_callback_loop_exit
    \/ audio_callback_deliver

SpecCallback == CallbackInit /\ [][CallbackNext]_vars

\* the callback has just returned
CbReturned == cb_returned /\ cb_pc = "idle"

\* samples the invocation had to work with: the leftover at entry plus every
\* sample it dequeued
CbAvailable == cb_entry_len + cb_deq_total

\* C4: every invocation of the callback writes exactly `frames` samples.
C4_ExactlyFrames == CbReturned => Len(outdata) = cb_frames

\* C4 witness: an invocation returned that mixed leftover samples, a dequeued
\* chunk and silence.
C4_Witness ==
    /\ CbReturned /\ cb_entry_len > 0 /\ cb_deq_total > 0 /\ cb_zeros > 0
    /\ Len(outdata) = cb_frames

\* C5: silence is inserted iff the available samples are fewer than `frames`,
\* and then exactly frames - available zeros are inserted.
C5_SilenceIffShort ==
    CbReturned =>
        /\ (cb_zeros > 0) <=> (CbAvailable < cb_frames)
        /\ cb_zeros = Max(0, cb_frames - CbAvailable)
        /\ \A i \in 1..Len(outdata) :
               (outdata[i] = 0) <=> (i > cb_frames - cb_zeros)

\* C5 witness: an invocation returned after padding a non-empty buffer.
C5_Witness ==
    /\ CbReturned /\ cb_zeros > 0 /\ CbAvailable > 0
    /\ cb_zeros = cb_frames - CbAvailable

\* C6 as stated: after every invocation the leftover buffer holds fewer than
\* `frames` samples, whatever the processed frames' lengths.
C6_LeftoverBelowFrames == CbReturned => Len(audio_buffer) < cb_frames

\* C6 amended: the leftover is below `frames` when the buffer held fewer than
\* `frames` samples at entry and no dequeued chunk is longer than `frames`;
\* in general it is at most the entry surplus or one sample less than the
\* last dequeued chunk, whichever is larger.
C6_LeftoverBound ==
    CbReturned =>
        /\ (cb_entry_len < cb_frames /\ cb_max_chunk <= cb_frames)
               => Len(audio_buffer) < cb_frames
        /\ Len(audio_buffer)
               <= Max(0, Max(cb_entry_len - cb_frames, cb_last_chunk - 1))

\* C6 witness: a chunk longer than `frames` was dequeued and left more than
\* `frames` samples behind.
C6_Witness ==
    /\ CbReturned /\ cb_last_chunk > cb_frames
    /\ Len(audio_buffer) >= cb_frames
    /\ Len(audio_buffer) < cb_last_chunk

\* the audio subsystem's thread runs the callback's own steps; nothing is
\* assumed about the processing thread's pushes
\* C25: in every state the samples delivered so far, silence removed,
\* followed by the buffer's samples are the dequeued frames' samples in
\* dequeue order; between invocations the buffer holds no silence.
C25_NoLossNoReorder ==
    /\ cb_played \o WithoutSilence(audio_buffer) = cb_dequeued
    /\ cb_pc = "idle" => cb_played \o audio_buffer = cb_dequeued

\* C25 witness: an invocation that found a leftover, dequeued a frame and
\* inserted silence has returned, after at least one earlier invocation.
C25_Witness ==
    /\ CbReturned /\ cb_entry_len > 0 /\ cb_deq_total > 0 /\ cb_zeros > 0
    /\ Len(cb_played) >= 3
    /\ Len(cb_played) > Len(WithoutSilence(outdata))

CallbackFairness ==
    /\ WF_vars(audio_callback_get_nowait)
    /\ WF_vars(audio_callback_empty)
    /\ WF_vars(audio_callback_loop_exit)
    /\ WF_vars(audio_callback_deliver)

SpecCallbackFair == SpecCallback /\ CallbackFairness

\* C21: the callback never waits: every invocation returns, whatever the
\* processing thread pushes or fails to push, and the dequeue attempt that
\* finds the queue empty is the invocation's last queue access.
C21_NeverWaits ==
    /\ (cb_pc # "idle") ~> (cb_pc = "idle")
    /\ [][(cb_pc = "loop" /\ cb_zeros' # cb_zeros)
             => (/\ processed_audio_queue = <<>>
                 /\ processed_audio_queue' = <<>>
                 /\ cb_pc' = "deliver")]_vars
    /\ [][cb_pc = "deliver"
             => Len(processed_audio_queue') >= Len(processed_audio_queue)]_vars

\* C21 witness: an invocation that began with an empty buffer dequeued a
\* chunk, then found the queue empty, padded and returned.
C21_Witness ==
    /\ CbReturned /\ cb_entry_len = 0 /\ cb_deq_total > 0 /\ cb_zeros > 0
    /\ processed_audio_queue = <<>>

(***************************************************************************)
(* SpecProc: process_audio, process_audio_chunk and the noise profile      *)
(***************************************************************************)
RECURSIVE concatenate(_)
\* np.concatenate(list of frames)
concatenate(frames) ==
    IF frames = <<>> THEN <<>> ELSE Head(frames) \o concatenate(Tail(frames))

\* initialize_noise_profile: append the frame (in place), count it, and build
\* the profile once the count reaches samples_needed
initialize_noise_profile(ad, ns, collected, need) ==
    LET ns2 == Append(ns, ad)
        c2 == collected + 1
    IN  IF c2 >= need
           THEN [noise_samples |-> ns2, profile |-> concatenate(ns2),
                 initialized |-> TRUE, samples_collected |-> c2]
           ELSE [noise_samples |-> ns2, profile |-> <<>>,
                 initialized |-> FALSE, samples_collected |-> c2]

\* main() passes the profile sample count (>= 1, parse_arguments) to the
\* configuration; process_audio reads it once before its loop
ProcInit ==
    /\ \E n \in 1..MaxN :
          /\ config = DefaultConfig(n)
          /\ samples_needed = n
    /\ cfg = config
    /\ ProcIdleRest
    /\ QueueIdle /\ CallbackIdle /\ LifeIdle /\ ConfigIdle /\ UdpIdle
    /\ PipeIdle

\* a step of the processing harness touches nothing else
ProcOnly == UNCHANGED <<qvars, cbvars, lifevars, cfgvars, udpvars, pipevars>>

\* the bandpass module globals (audio_processor.py lines 10-12)
bpvars ==
    <<bandpass_filter_cache_key, bandpass_filter_coeffs, bandpass_filter_state>>

\* the k-th raw frame: FrameLen samples, growing past full scale, negative
\* in the even frames
RawFrame(k) ==
    [i \in 1..FrameLen |->
        IF k % 2 = 0 THEN -((k - 1) * FrameLen + i) ELSE (k - 1) * FrameLen + i]

\* finalize_audio: np.clip(audio, -1.0, 1.0)
finalize_audio_noclip(audio) == audio
finalize_audio(audio) ==
    [i \in 1..Len(audio) |-> Max(-FullScale, Min(FullScale, audio[i]))]

\* lines 28-33: f / nyquist clamped to [0.01, 0.99], in units of
\* 1 / (5000 * sample_rate) (f is in hundredths of a hertz)
clamp_norm(f, sample_rate) ==
    Max(50 * sample_rate, Min(100 * f, 4950 * sample_rate))

\* line 22: the cached design is for another tuple, or there is none
CacheStale_first_only(key, cache_key) == key = <<>>
CacheStale(key, cache_key) == key = <<>> \/ key # cache_key

\* get_bandpass_filter_coeffs: the three globals it leaves and the
\* coefficients it returns
get_bandpass_filter_coeffs(low_freq, high_freq, sample_rate) ==
    LET cache_key == <<low_freq, high_freq, sample_rate>>
        reset == CacheStale(bandpass_filter_cache_key, cache_key)
        coeffs1 == IF reset THEN <<>> ELSE bandpass_filter_coeffs
        state1 == IF reset THEN <<>> ELSE bandpass_filter_state
        low == clamp_norm(low_freq, sample_rate)
        high == clamp_norm(high_freq, sample_rate)
    IN  IF coeffs1 # <<>>
           THEN [key |-> cache_key, coeffs |-> coeffs1, state |-> state1]
        ELSE IF low >= high
           THEN [key |-> cache_key, coeffs |-> <<>>, state |-> state1]
        ELSE [key |-> cache_key, coeffs |-> <<low, high>>, state |-> <<0>>]

\* apply_bandpass_filter on frame number id: the globals it leaves, whether
\* it filtered, and the memory the filter started from; `raises` says
\* lfilter raised
apply_bandpass_filter(id, low_freq, high_freq, sample_rate, raises) ==
    LET g == get_bandpass_filter_coeffs(low_freq, high_freq, sample_rate)
    IN  IF g.coeffs = <<>>
           THEN [key |-> g.key, coeffs |-> g.coeffs, state |-> g.state,
                 applied |-> "bypass", zi |-> <<>>]
        ELSE [key |-> g.key, coeffs |-> g.coeffs,
              state |-> IF raises THEN g.state ELSE Append(g.state, id),
              applied |-> "filtered", zi |-> g.state]

\* line 89: len(noise_profile) >= len(filtered_audio)
ProfileCovers_strictly(profile, frame) == Len(profile) > Len(frame)
ProfileCovers(profile, frame) == Len(profile) >= Len(frame)

\* apply_noise_reduction: the arguments nr.reduce_noise is called with
apply_noise_reduction(filtered_audio, c, initialized, profile) ==
    IF c.use_stationary_mode /\ initialized
          /\ ProfileCovers(profile, filtered_audio)
       THEN [nr |-> "stationary",
             y_noise |-> SubSeq(profile, 1, Len(filtered_audio)),
             prop_decrease |-> c.prop_decrease,
             n_std |-> c.n_std_thresh_stationary]
       ELSE [nr |-> "adaptive", y_noise |-> <<>>,
             prop_decrease |-> c.prop_decrease, n_std |-> 0]

\* where process_audio's loop goes after `except Exception` (lines 187-189)
AfterError_exit == "done"
AfterError == "check"

\* line 173: while running_flag()
process_audio_while ==
    /\ pa_pc = "check"
    /\ pa_pc' = IF running THEN "get" ELSE "done"
    /\ UNCHANGED <<config, cfg, audio_data, noise_samples, samples_collected,
                   samples_needed, noise_profile_initialized, noise_profile,
                   frames_in, pa_out, pa_errors, bpvars, processed_audio,
                   pa_trace, pa_raised>>
    /\ ProcOnly

\* line 175: raw_audio_queue.get(timeout=1.0) returns the next raw frame
process_audio_get ==
    /\ pa_pc = "get" /\ frames_in < MaxRawFrames
    /\ audio_data' = RawFrame(frames_in + 1)
    /\ frames_in' = frames_in + 1
    /\ pa_pc' = "snapshot"
    /\ UNCHANGED <<config, cfg, noise_samples, samples_collected,
                   samples_needed, noise_profile_initialized, noise_profile,
                   pa_out, pa_errors, bpvars, processed_audio, pa_trace,
                   pa_raised>>
    /\ ProcOnly

\* lines 175, 185-186: the get times out, queue.Empty, continue
process_audio_get_empty ==
    /\ pa_pc = "get"
    /\ pa_pc' = "check"
    /\ UNCHANGED <<config, cfg, audio_data, noise_samples, samples_collected,
                   samples_needed, noise_profile_initialized, noise_profile,
                   frames_in, pa_out, pa_errors, bpvars, processed_audio,
                   pa_trace, pa_raised>>
    /\ ProcOnly

\* line 177: cfg = config.get_all()
process_audio_snapshot ==
    /\ pa_pc = "snapshot"
    /\ cfg' = config
    /\ pa_pc' = "chunk"
    /\ UNCHANGED <<config, audio_data, noise_samples, samples_collected,
                   samples_needed, noise_profile_initialized, noise_profile,
                   frames_in, pa_out, pa_errors, bpvars, processed_audio,
                   pa_trace, pa_raised>>
    /\ ProcOnly

\* lines 134-140 of process_audio_chunk: the profile's part of one cycle
AccumulateStep ==
    IF noise_profile_initialized
       THEN /\ UNCHANGED <<noise_samples, noise_profile_initialized,
                           noise_profile>>
       ELSE LET r == initialize_noise_profile(audio_data, noise_samples,
                                              samples_collected, samples_needed)
            IN  /\ noise_samples' = r.noise_samples
                /\ noise_profile_initialized' = r.initialized
                /\ noise_profile' =
                       IF r.initialized THEN r.profile ELSE noise_profile

\* lines 179-181: the cfg argument process_audio hands to
\* process_audio_chunk, which hands it on to every stage
ChunkCfg_live == config
ChunkCfg == cfg

\* lines 142-155 of process_audio_chunk: bandpass, reduction, effects and
\* finalize_audio; raise_at names the stage that raises ("none": no stage).
\* The routines of scipy and noisereduce are not computed: the trace keeps
\* what they were called with, and a frame that went through them has no
\* modelled samples.
StagesStep(raise_at) ==
    LET bp == IF ChunkCfg.use_bandpass
                 THEN apply_bandpass_filter(frames_in, ChunkCfg.voice_low_freq,
                                            ChunkCfg.voice_high_freq, SAMPLE_RATE,
                                            raise_at = "bandpass")
                 ELSE [key |-> bandpass_filter_cache_key,
                       coeffs |-> bandpass_filter_coeffs,
                       state |-> bandpass_filter_state,
                       applied |-> "off", zi |-> <<>>]
        red == apply_noise_reduction(audio_data, ChunkCfg,
                                     noise_profile_initialized', noise_profile')
        reduced == raise_at # "bandpass"
        gated == ChunkCfg.use_spectral_gating /\ raise_at \notin {"bandpass", "reduce"}
        gained == ChunkCfg.voice_gain_db # 0 /\ raise_at \notin {"bandpass", "reduce"}
    IN  /\ bandpass_filter_cache_key' = bp.key
        /\ bandpass_filter_coeffs' = bp.coeffs
        /\ bandpass_filter_state' = bp.state
        /\ pa_trace' =
               [id |-> frames_in, enabled |-> TRUE, bandpass |-> bp.applied,
                zi |-> bp.zi,
                nr |-> IF reduced THEN red.nr ELSE "none",
                y_noise |-> IF reduced THEN red.y_noise ELSE <<>>,
                prop_decrease |-> IF reduced THEN red.prop_decrease ELSE 0,
                n_std |-> IF reduced THEN red.n_std ELSE 0,
                gating |-> gated, gain |-> gained, raised |-> raise_at]
        /\ processed_audio' =
               IF raise_at # "none" THEN processed_audio
               ELSE [stages |->
                         (IF bp.applied = "filtered" THEN <<"bandpass">>
                          ELSE <<>>)
                         \o <<red.nr>>
                         \o (IF gated THEN <<"gating">> ELSE <<>>)
                         \o (IF gained THEN <<"gain">> ELSE <<>>)
                         \o <<"finalize">>,
                     samples |-> <<>>]

\* lines 179-181: process_audio_chunk returns; samples_collected is rebound
process_audio_chunk ==
    /\ pa_pc = "chunk"
    /\ IF ~ChunkCfg.noise_reduction_enabled
          THEN /\ UNCHANGED <<noise_samples, noise_profile_initialized,
                              noise_profile, samples_collected, bpvars>>
               /\ processed_audio' = [stages |-> <<"finalize">>,
                                      samples |-> finalize_audio(audio_data)]
               /\ pa_trace' = [NoTrace EXCEPT !.id = frames_in]
          ELSE /\ AccumulateStep
               /\ samples_collected' =
                      IF noise_profile_initialized THEN samples_collected
                      ELSE samples_collected + 1
               /\ StagesStep("none")
    /\ pa_pc' = "put"
    /\ UNCHANGED <<config, audio_data, cfg, samples_needed, frames_in, pa_out,
                   pa_errors, pa_raised>>
    /\ ProcOnly

\* lines 142-155, 187-189: a stage after the accumulation raises; the
\* exception leaves process_audio_chunk, so samples_collected keeps its old
\* value, nothing is pushed and the loop goes on
process_audio_chunk_raises ==
    /\ pa_pc = "chunk"
    /\ ChunkCfg.noise_reduction_enabled
    /\ AccumulateStep
    /\ \E raise_at \in {"bandpass", "reduce", "effects"} :
          /\ raise_at = "bandpass" => ChunkCfg.use_bandpass
          /\ StagesStep(raise_at)
          /\ raise_at = "bandpass" => bandpass_filter_coeffs' # <<>>
    /\ pa_errors' = pa_errors + 1
    /\ pa_raised' = pa_raised \cup {frames_in}
    /\ pa_pc' = AfterError
    /\ UNCHANGED <<config, audio_data, cfg, samples_collected, samples_needed,
                   frames_in, pa_out>>
    /\ ProcOnly

\* line 183: put_with_drop_on_full(processed_audio_queue, processed_audio)
process_audio_put ==
    /\ pa_pc = "put"
    /\ pa_out' = Append(pa_out, frames_in)
    /\ pa_pc' = "check"
    /\ UNCHANGED <<config, audio_data, cfg, noise_samples, samples_collected,
                   samples_needed, noise_profile_initialized, noise_profile,
                   frames_in, pa_errors, bpvars, processed_audio, pa_trace,
                   pa_raised>>
    /\ ProcOnly

\* commands.py /noise <on|off>: config.noise_reduction_enabled = bool(v)
command_noise ==
    /\ \E v \in BOOLEAN :
          /\ v # config.noise_reduction_enabled
          /\ config' = [config EXCEPT !.noise_reduction_enabled = v]
    /\ UNCHANGED <<cfg, parest>>
    /\ ProcOnly

\* commands.py /voice_gain 6 or /voice_gain 0
command_voice_gain ==
    /\ \E v \in {0, 600} :
          /\ v # config.voice_gain_db
          /\ config' = [config EXCEPT !.voice_gain_db = v]
    /\ UNCHANGED <<cfg, parest>>
    /\ ProcOnly

\* some thread clears the running flag (running_flag.set(False))
running_flag_cleared ==
    /\ running
    /\ running' = FALSE
    /\ UNCHANGED <<main_pc, stream, main_failed, udp_pc, sock, lp_pc, cmd_pc,
                   cmd_last, udp_last, lp_last>>
    /\ UNCHANGED <<qvars, cbvars, pavars, cfgvars, udpvars, pipevars>>

ProcNext ==
    \/ process_audio_while
    \/ process_audio_get
    \/ process_audio_get_empty
    \/ process_audio_snapshot
    \/ process_audio_chunk
    \/ process_audio_chunk_raises
    \/ process_audio_put
    \/ command_noise
    \/ command_voice_gain
    \/ running_flag_cleared

SpecProc == ProcInit /\ [][ProcNext]_vars

\* C7: the profile is ready exactly from the N-th accumulated frame on, never
\* earlier; once ready it stays ready and is never replaced or modified.
C7_ReadyAtNth ==
    /\ [](noise_profile_initialized <=> Len(noise_samples) >= samples_needed)
    /\ [][noise_profile_initialized
            => (noise_profile_initialized' /\ noise_profile' = noise_profile)]_vars

\* C24: the accumulator holds as many frames as the counter says, never
\* more than the profile sample count, and a ready profile is N frames long.
C24_CounterInStep ==
    /\ samples_collected = Len(noise_samples)
    /\ Len(noise_samples) <= samples_needed
    /\ noise_profile_initialized =>
          Len(noise_profile) = samples_needed * FrameLen

(***************************************************************************)
(* SpecLife: main, receive_udp_audio, process_audio, command_input_thread  *)
(* and the running flag.  The frames themselves are not followed here: a   *)
(* blocking call ends with one of the outcomes its code distinguishes.     *)
(***************************************************************************)
\* udp_receiver.py line 13: sock.settimeout(1.0) makes recvfrom time out
RecvTimesOut == TRUE

\* audio_processor.py line 175: raw_audio_queue.get(timeout=1.0) times out
GetTimesOut == TRUE

\* cli.py line 242: `while running_flag()` goes on while the flag is set
WaitLoopContinues_always(r) == TRUE
WaitLoopContinues(r) == r

\* commands.py lines 188-189: `except EOFError: break` leaves the flag alone
RunningAfterEOF_cleared(r) == FALSE
RunningAfterEOF(r) == r

\* cli.py lines 247-249: `except Exception` in main clears the flag
RunningAfterFatal_kept(r) == r
RunningAfterFatal(r) == FALSE

\* cli.py lines 34-35: signal_handler calls running_flag.set(False)
RunningAfterSignal_toggled(r) == ~r
RunningAfterSignal(r) == FALSE

\* main() has built the flag, the configuration and the queues and started
\* the three daemon threads (cli.py lines 171-220)
LifeInit ==
    QueueIdle /\ CallbackIdle /\ ProcIdle /\ LifeIdle /\ ConfigIdle /\ UdpIdle
    /\ PipeIdle

\* a step of a thread's control flow touches nothing else
LifeOnly == UNCHANGED <<qvars, cbvars, pavars, cfgvars, udpvars, pipevars>>

\* cli.py lines 233-239: create_audio_stream(...) returns or raises
main_create_stream ==
    /\ main_pc = "create"
    /\ \E ok \in BOOLEAN :
          IF ok
             THEN /\ stream' = "created" /\ main_pc' = "start"
                  /\ UNCHANGED <<running, main_failed>>
             ELSE /\ running' = RunningAfterFatal(running)
                  /\ main_failed' = TRUE /\ main_pc' = "finally"
                  /\ UNCHANGED stream
    /\ UNCHANGED <<udp_pc, sock, lp_pc, cmd_pc, cmd_last, udp_last, lp_last>>
    /\ LifeOnly

\* cli.py line 240: stream.start() returns or raises
main_start_stream ==
    /\ main_pc = "start"
    /\ \E ok \in BOOLEAN :
          IF ok
             THEN /\ stream' = "started" /\ main_pc' = "check"
                  /\ UNCHANGED <<running, main_failed>>
             ELSE /\ running' = RunningAfterFatal(running)
                  /\ main_failed' = TRUE /\ main_pc' = "finally"
                  /\ UNCHANGED stream
    /\ UNCHANGED <<udp_pc, sock, lp_pc, cmd_pc, cmd_last, udp_last, lp_last>>
    /\ LifeOnly

\* cli.py line 242: while running_flag()
main_wait_check ==
    /\ main_pc = "check"
    /\ main_pc' = IF WaitLoopContinues(running) THEN "sleep" ELSE "finally"
    /\ UNCHANGED <<running, stream, main_failed, udp_pc, sock, lp_pc, cmd_pc,
                   cmd_last, udp_last, lp_last>>
    /\ LifeOnly

\* cli.py line 243: time.sleep(0.1) returns
main_sleep ==
    /\ main_pc = "sleep"
    /\ main_pc' = "check"
    /\ UNCHANGED <<running, stream, main_failed, udp_pc, sock, lp_pc, cmd_pc,
                   cmd_last, udp_last, lp_last>>
    /\ LifeOnly

\* cli.py lines 232-246: KeyboardInterrupt anywhere in the try, that is in
\* create_audio_stream (`stream` still None), in stream.start() or in the
\* wait loop: running_flag.set(False), then the finally block
main_keyboard_interrupt ==
    /\ main_pc \in {"create", "start", "check", "sleep"}
    /\ running' = FALSE
    /\ main_pc' = "finally"
    /\ UNCHANGED <<stream, main_failed, udp_pc, sock, lp_pc, cmd_pc, cmd_last,
                   udp_last, lp_last>>
    /\ LifeOnly

\* cli.py lines 250-255: finally: stop and close a stream that exists
main_finally ==
    /\ main_pc = "finally"
    /\ stream' = IF stream # "none" THEN "closed" ELSE stream
    /\ main_pc' = "exit"
    /\ UNCHANGED <<running, main_failed, udp_pc, sock, lp_pc, cmd_pc, cmd_last,
                   udp_last, lp_last>>
    /\ LifeOnly

\* cli.py lines 34-35: SIGINT or SIGTERM: running_flag.set(False)
signal_handler ==
    /\ main_pc # "exit"
    /\ running' = RunningAfterSignal(running)
    /\ UNCHANGED <<main_pc, stream, main_failed, udp_pc, sock, lp_pc, cmd_pc,
                   cmd_last, udp_last, lp_last>>
    /\ LifeOnly

\* udp_receiver.py lines 10-13: socket(), bind(); an OSError is caught nowhere
\* and ends the thread
receive_udp_audio_bind ==
    /\ udp_pc = "bind"
    /\ \E ok \in BOOLEAN :
          IF ok
             THEN sock' = "bound" /\ udp_pc' = "check"
             ELSE sock' = "none" /\ udp_pc' = "crashed"
    /\ UNCHANGED <<running, main_pc, stream, main_failed, lp_pc, cmd_pc,
                   cmd_last, udp_last, lp_last>>
    /\ LifeOnly

\* udp_receiver.py lines 19, 38: while running_flag(), else sock.close()
receive_udp_audio_check ==
    /\ udp_pc = "check"
    /\ IF running
          THEN udp_pc' = "recv" /\ sock' = sock
          ELSE udp_pc' = "done" /\ sock' = "closed"
    /\ UNCHANGED <<running, main_pc, stream, main_failed, lp_pc, cmd_pc,
                   cmd_last, udp_last, lp_last>>
    /\ LifeOnly

\* udp_receiver.py lines 21-30: a datagram arrives; the frames it completes
\* are pushed, each push bounded by its timeouts
receive_udp_audio_data ==
    /\ udp_pc = "recv"
    /\ udp_last' = "data"
    /\ udp_pc' = "check"
    /\ UNCHANGED <<running, main_pc, stream, main_failed, sock, lp_pc, cmd_pc,
                   cmd_last, lp_last>>
    /\ LifeOnly

\* udp_receiver.py lines 32-33: socket.timeout, continue
receive_udp_audio_timeout ==
    /\ udp_pc = "recv" /\ RecvTimesOut
    /\ udp_last' = "timeout"
    /\ udp_pc' = "check"
    /\ UNCHANGED <<running, main_pc, stream, main_failed, sock, lp_pc, cmd_pc,
                   cmd_last, lp_last>>
    /\ LifeOnly

\* udp_receiver.py lines 34-36: any other exception is logged
receive_udp_audio_error ==
    /\ udp_pc = "recv"
    /\ udp_last' = "error"
    /\ udp_pc' = "check"
    /\ UNCHANGED <<running, main_pc, stream, main_failed, sock, lp_pc, cmd_pc,
                   cmd_last, lp_last>>
    /\ LifeOnly

\* audio_processor.py line 173: while running_flag()
process_audio_check ==
    /\ lp_pc = "check"
    /\ lp_pc' = IF running THEN "get" ELSE "done"
    /\ UNCHANGED <<running, main_pc, stream, main_failed, udp_pc, sock, cmd_pc,
                   cmd_last, udp_last, lp_last>>
    /\ LifeOnly

\* audio_processor.py lines 175-183, 187-189: a frame is dequeued and the
\* cycle ends (pushed, or dropped with the exception logged)
process_audio_frame ==
    /\ lp_pc = "get"
    /\ lp_last' = "frame"
    /\ lp_pc' = "check"
    /\ UNCHANGED <<running, main_pc, stream, main_failed, udp_pc, sock, cmd_pc,
                   cmd_last, udp_last>>
    /\ LifeOnly

\* audio_processor.py lines 185-186: queue.Empty after the timeout, continue
process_audio_timeout ==
    /\ lp_pc = "get" /\ GetTimesOut
    /\ lp_last' = "empty"
    /\ lp_pc' = "check"
    /\ UNCHANGED <<running, main_pc, stream, main_failed, udp_pc, sock, cmd_pc,
                   cmd_last, udp_last>>
    /\ LifeOnly

\* commands.py line 184: while running_flag()
command_input_check ==
    /\ cmd_pc = "check"
    /\ cmd_pc' = IF running THEN "input" ELSE "done"
    /\ UNCHANGED <<running, main_pc, stream, main_failed, udp_pc, sock, lp_pc,
                   cmd_last, udp_last, lp_last>>
    /\ LifeOnly

\* commands.py lines 187, 194-195: input() gives a line that handle_command
\* answers with True (any command but /quit, or a blank line)
command_input_line ==
    /\ cmd_pc = "input"
    /\ cmd_last' = "line"
    /\ cmd_pc' = "check"
    /\ UNCHANGED <<running, main_pc, stream, main_failed, udp_pc, sock, lp_pc,
                   udp_last, lp_last>>
    /\ LifeOnly

\* commands.py lines 195-197: /quit: running_flag.set(False), break
command_input_quit ==
    /\ cmd_pc = "input"
    /\ cmd_last' = "quit"
    /\ running' = FALSE
    /\ cmd_pc' = "done"
    /\ UNCHANGED <<main_pc, stream, main_failed, udp_pc, sock, lp_pc, udp_last,
                   lp_last>>
    /\ LifeOnly

\* commands.py lines 188-189: input() raises EOFError: break
command_input_eof ==
    /\ cmd_pc = "input"
    /\ cmd_last' = "eof"
    /\ running' = RunningAfterEOF(running)
    /\ cmd_pc' = "done"
    /\ UNCHANGED <<main_pc, stream, main_failed, udp_pc, sock, lp_pc, udp_last,
                   lp_last>>
    /\ LifeOnly

\* commands.py lines 190-192: KeyboardInterrupt: running_flag.set(False), break
command_input_interrupt ==
    /\ cmd_pc = "input"
    /\ cmd_last' = "interrupt"
    /\ running' = FALSE
    /\ cmd_pc' = "done"
    /\ UNCHANGED <<main_pc, stream, main_failed, udp_pc, sock, lp_pc, udp_last,
                   lp_last>>
    /\ LifeOnly

LifeNext ==
    \/ main_create_stream
    \/ main_start_stream
    \/ main_wait_check
    \/ main_sleep
    \/ main_keyboard_interrupt
    \/ main_finally
    \/ signal_handler
    \/ receive_udp_audio_bind
    \/ receive_udp_audio_check
    \/ receive_udp_audio_data
    \/ receive_udp_audio_timeout
    \/ receive_udp_audio_error
    \/ process_audio_check
    \/ process_audio_frame
    \/ process_audio_timeout
    \/ command_input_check
    \/ command_input_line
    \/ command_input_quit
    \/ command_input_eof
    \/ command_input_interrupt

SpecLife == LifeInit /\ [][LifeNext]_vars

\* cli.py lines 200-220, 258-259: the three threads are daemon threads that
\* nothing joins; they run while the process lives, and the process ends
\* when main() returns, wherever they are
ProcessAlive == main_pc # "exit"

\* Main runs; a daemon thread runs, and its call with a timeout returns,
\* while the process lives; nothing makes a datagram, a raw frame, a line of
\* input or a signal arrive.
LifeFairness ==
    /\ WF_vars(main_create_stream)
    /\ WF_vars(main_start_stream)
    /\ WF_vars(main_wait_check)
    /\ WF_vars(main_sleep)
    /\ WF_vars(main_finally)
    /\ WF_vars(ProcessAlive /\ receive_udp_audio_bind)
    /\ WF_vars(ProcessAlive /\ receive_udp_audio_check)
    /\ WF_vars(ProcessAlive /\ receive_udp_audio_timeout)
    /\ WF_vars(ProcessAlive /\ process_audio_check)
    /\ WF_vars(ProcessAlive /\ process_audio_timeout)
    /\ WF_vars(ProcessAlive /\ command_input_check)

SpecLifeFair == SpecLife /\ LifeFairness

MainExited == main_pc = "exit"
UdpExited == udp_pc \in {"done", "crashed"}
ProcExited == lp_pc = "done"
CmdExited == cmd_pc = "done"

\* C8 as stated: once the flag is cleared, the ingest, processing, command and
\* main loops all exit with no further external event.
C8_AllLoopsExit ==
    (~running) ~> (MainExited /\ UdpExited /\ ProcExited /\ CmdExited)

\* C8 amended: once the flag is cleared, main leaves its wait loop and
\* returns with no further external event, and a loop test that a thread
\* makes from then on ends that thread's loop (the ingest thread closing its
\* socket); the threads themselves need not get that far.
C8_MainExitsLoopsRecheck ==
    /\ (~running) ~> MainExited
    /\ [][(~running /\ main_pc = "check" /\ main_pc' # main_pc)
            => main_pc' = "finally"]_vars
    /\ [][(~running /\ udp_pc = "check" /\ udp_pc' # udp_pc)
            => (udp_pc' = "done" /\ sock' = "closed")]_vars
    /\ [][(~running /\ lp_pc = "check" /\ lp_pc' # lp_pc)
            => lp_pc' = "done"]_vars
    /\ [][(~running /\ cmd_pc = "check" /\ cmd_pc' # cmd_pc)
            => cmd_pc' = "done"]_vars

\* C8 witness: the flag is cleared and main has returned, the stream closed,
\* while the ingest thread is in recvfrom with its socket open, the
\* processing thread in get and the command thread in input().
C8_Witness ==
    /\ ~running /\ MainExited /\ stream = "closed"
    /\ udp_pc = "recv" /\ sock = "bound" /\ lp_pc = "get"
    /\ cmd_pc = "input"

\* the step in which input() raises EOFError
EOFStep == cmd_pc = "input" /\ cmd_last' = "eof"

\* C9 as stated: reading end-of-input clears the lifecycle flag.
C9_EOFClearsFlag == [][EOFStep => running' = FALSE]_vars

\* C9 amended: reading end-of-input ends the command loop and leaves the
\* lifecycle flag as it was; /quit is what clears it.
C9_EOFEndsLoopOnly ==
    [][/\ EOFStep => (cmd_pc' = "done" /\ running' = running)
       /\ (cmd_pc = "input" /\ cmd_last' = "quit") => ~running']_vars

\* C9 witness: the command thread ended on end-of-input with the flag set.
C9_Witness == cmd_last = "eof" /\ cmd_pc = "done" /\ running

\* C10: a thread that failed to get the resource it needs (the playback
\* stream in main, the UDP socket in the ingest thread) has cleared the flag.
C10_NoFlagWithoutResource ==
    (main_failed \/ udp_pc = "crashed") => ~running

\* a step that ends create_audio_stream or stream.start() otherwise than
\* by the call returning (an exception or a keyboard interrupt)
CreateOrStartFails ==
    \/ main_pc = "create" /\ main_pc' \notin {"create", "start"}
    \/ main_pc = "start" /\ main_pc' \notin {"start", "check"}

\* C11: when creating or starting the playback stream fails, by an
\* exception or by a keyboard interrupt, the flag is cleared in that step
\* and main goes straight to its finally block (never into the wait loop);
\* after a fatal error the flag stays cleared and main stays out of the
\* wait loop; and whenever main has ended, a stream that was created is
\* closed.
C11_FatalShutsDown ==
    /\ [][CreateOrStartFails => (~running' /\ main_pc' = "finally")]_vars
    /\ [](main_failed => (~running /\ main_pc \in {"finally", "exit"}))
    /\ [](main_pc \in {"check", "sleep"} => stream = "started")
    /\ [](main_pc = "exit" => stream \in {"none", "closed"})

\* C11 witness: stream.start() failed on a created stream and main has ended.
C11_Witness ==
    main_failed /\ main_pc = "exit" /\ stream = "closed" /\ ~running

\* C12: the flag starts set, and once cleared no step of any thread sets it
\* again.
C12_FlagMonotone == running = TRUE /\ [][running' => running]_vars

\* C12 witness: the flag was cleared by /quit and every thread then ran to
\* its end with the flag still cleared.
C12_Witness ==
    /\ ~running /\ cmd_last = "quit"
    /\ MainExited /\ UdpExited /\ ProcExited /\ CmdExited

(***************************************************************************)
(* SpecConfig: NoiseReductionConfig, its setters and get_all under _lock   *)
(***************************************************************************)
\* the fields in the order get_all reads them (config.py lines 139-149)
Fields ==
    <<"prop_decrease", "voice_low_freq", "voice_high_freq",
      "spectral_gate_threshold_db", "noise_profile_samples",
      "n_std_thresh_stationary", "use_bandpass", "use_spectral_gating",
      "use_stationary_mode", "voice_gain_db", "noise_reduction_enabled">>

BoolFields ==
    {"use_bandpass", "use_spectral_gating", "use_stationary_mode",
     "noise_reduction_enabled"}

\* Python values handed to a setter: a bool, a number (in hundredths) or a
\* string
PyBool(b) == [t |-> "bool", b |-> b, n |-> 0, s |-> ""]
PyNum(n) == [t |-> "num", b |-> FALSE, n |-> n, s |-> ""]
PyStr(s) == [t |-> "str", b |-> FALSE, n |-> 0, s |-> s]

\* bool(value): False, 0 and "" are falsy
bool(x) ==
    CASE x.t = "bool" -> x.b
      [] x.t = "num" -> x.n # 0
      [] x.t = "str" -> x.s # ""

\* int(value) on a number in hundredths: truncation toward zero
int(v) == IF v >= 0 THEN v \div 100 ELSE -((-v) \div 100)

\* prop_decrease.setter: max(0.0, min(1.0, value))
clamp_prop_decrease_unclamped(v) == v
clamp_prop_decrease(v) == Max(0, Min(100, v))

\* voice_gain_db.setter: max(-20.0, min(20.0, value))
clamp_voice_gain_db(v) == Max(-2000, Min(2000, v))

\* noise_profile_samples.setter: max(1, int(value))
clamp_noise_profile_samples(v) == Max(1, int(v))

\* what the setter of field f stores for the input x
Stored(f, x) ==
    CASE f = "prop_decrease" -> clamp_prop_decrease(x.n)
      [] f = "voice_gain_db" -> clamp_voice_gain_db(x.n)
      [] f = "noise_profile_samples" -> clamp_noise_profile_samples(x.n)
      [] f \in BoolFields -> bool(x)
      [] OTHER -> x.n

\* inputs tried on each setter, in and out of range
SetterInputs(f) ==
    CASE f = "prop_decrease" -> {PyNum(-50), PyNum(50), PyNum(150)}
      [] f = "voice_gain_db" -> {PyNum(-2500), PyNum(600), PyNum(2500)}
      [] f = "noise_profile_samples" ->
             {PyNum(-300), PyNum(0), PyNum(99), PyNum(270)}
      [] f \in BoolFields ->
             {PyBool(TRUE), PyBool(FALSE), PyNum(0), PyNum(200), PyStr(""),
              PyStr("off")}
      [] f = "voice_low_freq" -> {PyNum(900)}
      [] f = "voice_high_freq" -> {PyNum(200)}
      [] f = "spectral_gate_threshold_db" -> {PyNum(-3500)}
      [] f = "n_std_thresh_stationary" -> {PyNum(300)}

\* threading.Lock: a `with self._lock` block enters only when nobody holds it
LockAvailable_ignored(l) == TRUE
LockAvailable(l) == ~l

ConfigInit ==
    /\ QueueIdle /\ CallbackIdle /\ ProcIdle /\ LifeIdle /\ ConfigIdle /\ UdpIdle
    /\ PipeIdle

\* a step on the configuration object touches only config, cfg and cfgvars
ConfigOnly == UNCHANGED <<qvars, cbvars, lifevars, parest, udpvars, pipevars>>

\* a property setter (config.py lines 31-134) of one of the fields fs:
\* `with self._lock: self._f = <clamped value>`
setter_call(fs) ==
    /\ LockAvailable(lock)
    /\ \E f \in fs : \E x \in SetterInputs(f) :
          config' = [config EXCEPT ![f] = Stored(f, x)]
    /\ ga_instants' =
           IF ga_pc = "reading" THEN ga_instants \cup {config'} ELSE ga_instants
    /\ UNCHANGED <<lock, ga_pc, ga_i, snap, ga_returned, cmd_outcome, cfg>>
    /\ ConfigOnly

\* get_all line 137, in the processing thread: `with self._lock:` entered
get_all_acquire ==
    /\ ga_pc = "idle"
    /\ LockAvailable(lock)
    /\ lock' = TRUE /\ ga_pc' = "reading" /\ ga_i' = 1 /\ snap' = <<>>
    /\ ga_instants' = {config}
    /\ UNCHANGED <<config, cfg, ga_returned, cmd_outcome>>
    /\ ConfigOnly

\* get_all lines 139-149: the dict display reads one field after another
get_all_read ==
    /\ ga_pc = "reading" /\ ga_i <= Len(Fields)
    /\ snap' = snap @@ (Fields[ga_i] :> config[Fields[ga_i]])
    /\ ga_i' = ga_i + 1
    /\ UNCHANGED <<config, cfg, lock, ga_pc, ga_instants, ga_returned,
                   cmd_outcome>>
    /\ ConfigOnly

\* get_all line 138: the dict is returned and the lock released
get_all_return ==
    /\ ga_pc = "reading" /\ ga_i > Len(Fields)
    /\ cfg' = snap
    /\ lock' = FALSE /\ ga_pc' = "idle" /\ ga_returned' = TRUE
    /\ UNCHANGED <<config, ga_i, snap, ga_instants, cmd_outcome>>
    /\ ConfigOnly

\* the fields the command thread writes while the processing thread is in
\* get_all: the first and the last field get_all reads
ConcurrentlyWritten == {"prop_decrease", "noise_reduction_enabled"}

\* a setter call by the command thread, concurrent with get_all
config_setter_concurrent == setter_call(ConcurrentlyWritten)

ConfigNext ==
    \/ config_setter_concurrent
    \/ get_all_acquire
    \/ get_all_read
    \/ get_all_return

SpecConfig == ConfigInit /\ [][ConfigNext]_vars

\* a call of any field's setter with any of the inputs
config_setter == setter_call({Fields[i] : i \in 1..Len(Fields)})

SettersNext == config_setter

SpecSetters == ConfigInit /\ [][SettersNext]_vars

\* C13: every snapshot get_all returns equals the value the whole field set
\* held at one instant of the call; no snapshot mixes the values from before
\* and after a setter's write.
C13_SnapshotAtomic == (ga_returned /\ ga_pc = "idle") => cfg \in ga_instants

\* C13 witness: a get_all returned a snapshot that differs from the initial
\* configuration in two fields, and a later write has already moved on.
C13_Witness ==
    /\ ga_returned /\ ga_pc = "idle"
    /\ cfg.prop_decrease # 95 /\ cfg.noise_reduction_enabled = FALSE
    /\ config # cfg

\* C14: whatever a setter is called with, reduction strength is stored in
\* [0,1], voice gain in [-20,20], the profile sample count as an integer
\* >= 1, and each switch as a boolean.
C14_SettersClamp ==
    /\ config.prop_decrease \in 0..100
    /\ config.voice_gain_db \in (-2000)..2000
    /\ config.noise_profile_samples \in Nat \ {0}
    /\ \A f \in BoolFields : config[f] \in BOOLEAN

\* C14 witness: setters were called with inputs outside their ranges (1.5,
\* -25 dB, 2.7 samples, a falsy value) and the clamped values were stored.
C14_Witness ==
    /\ config.prop_decrease = 100
    /\ config.voice_gain_db = -2000
    /\ config.noise_profile_samples = 2
    /\ config.use_bandpass = FALSE

(***************************************************************************)
(* SpecCmd: command_input_thread's loop around handle_command              *)
(***************************************************************************)
\* float('nan'), which float() and argparse's type=float make of the text
\* "nan": a number of its own that every comparison answers with False
NaN == -999999

\* Python's <, <=, >, >= on floats
lt(a, b) == a # NaN /\ b # NaN /\ a < b
le(a, b) == a # NaN /\ b # NaN /\ a <= b
gt(a, b) == a # NaN /\ b # NaN /\ a > b
ge(a, b) == a # NaN /\ b # NaN /\ a >= b

\* the texts float() parses here, with their values in hundredths
FloatTable ==
    [t \in {"-35", "-30", "-21", "-20", "-1", "-0.5", "0", "0.5", "1", "1.5",
            "2", "2.5", "3", "4", "5", "6", "21", "nan"} |->
        CASE t = "nan" -> NaN [] t = "-35" -> -3500 [] t = "-30" -> -3000 [] t = "-21" -> -2100 [] t = "-20" -> -2000
          [] t = "-1" -> -100 [] t = "-0.5" -> -50 [] t = "0" -> 0
          [] t = "0.5" -> 50 [] t = "1" -> 100 [] t = "1.5" -> 150
          [] t = "2" -> 200 [] t = "2.5" -> 250 [] t = "3" -> 300
          [] t = "4" -> 400 [] t = "5" -> 500 [] t = "6" -> 600
          [] t = "21" -> 2100]

\* float(text) succeeds (no ValueError)
IsFloat(text) == text \in DOMAIN FloatTable

float(text) == FloatTable[text]

\* str.lower() on the words used here
lower(text) ==
    CASE text = "ON" -> "on"
      [] text = "Off" -> "off"
      [] text = "/NR" -> "/nr"
      [] text = "/Quit" -> "/quit"
      [] OTHER -> text

\* the configuration field a command word sets ("" for every other word)
CommandField(command) ==
    CASE command \in {"/noise_reduction", "/nr"} -> "prop_decrease"
      [] command \in {"/voice_low", "/vl"} -> "voice_low_freq"
      [] command \in {"/voice_high", "/vh"} -> "voice_high_freq"
      [] command \in {"/voice_gain", "/vg"} -> "voice_gain_db"
      [] command \in {"/spectral_gate", "/sg"} -> "spectral_gate_threshold_db"
      [] command \in {"/stationary_threshold", "/st"} ->
             "n_std_thresh_stationary"
      [] command \in {"/bandpass", "/bp"} -> "use_bandpass"
      [] command \in {"/spectral_gating", "/spg"} -> "use_spectral_gating"
      [] command \in {"/stationary", "/stat"} -> "use_stationary_mode"
      [] command \in {"/noise"} -> "noise_reduction_enabled"
      [] OTHER -> ""

\* SAMPLE_RATE / 2 in hundredths of a hertz
Nyquist == SAMPLE_RATE * 50

\* the validator lambdas handle_command passes to handle_numeric_command
valid_noise_reduction_any(v) == TRUE
valid_noise_reduction(v) == le(0, v) /\ le(v, 100)

valid_voice_low_unordered(v, c) == le(0, v)
valid_voice_low(v, c) == le(0, v) /\ lt(v, c.voice_high_freq)

valid_voice_high(v, c) == gt(v, c.voice_low_freq) /\ le(v, Nyquist)

valid_voice_gain(v) == le(-2000, v) /\ le(v, 2000)

validator(field, v, c) ==
    CASE field = "prop_decrease" -> valid_noise_reduction(v)
      [] field = "voice_low_freq" -> valid_voice_low(v, c)
      [] field = "voice_high_freq" -> valid_voice_high(v, c)
      [] field = "voice_gain_db" -> valid_voice_gain(v)
      [] OTHER -> TRUE

\* the words handle_toggle_command takes for on and for off
ToggleOn == {"on", "1", "true", "enable"}
ToggleOff == {"off", "0", "false", "disable"}

\* handle_numeric_command: what it leaves in the configuration c
handle_numeric_command(parts, field, c) ==
    IF Len(parts) < 2 THEN [config |-> c, outcome |-> "usage"]
    ELSE IF ~IsFloat(parts[2]) THEN [config |-> c, outcome |-> "invalid_number"]
    ELSE IF validator(field, float(parts[2]), c)
         THEN [config |-> [c EXCEPT ![field] =
                                Stored(field, PyNum(float(parts[2])))],
               outcome |-> "set"]
    ELSE [config |-> c, outcome |-> "range_error"]

\* handle_toggle_command: what it leaves in the configuration c
handle_toggle_command(parts, field, c) ==
    IF Len(parts) < 2 THEN [config |-> c, outcome |-> "usage"]
    ELSE IF lower(parts[2]) \in ToggleOn
         THEN [config |-> [c EXCEPT ![field] = Stored(field, PyBool(TRUE))],
               outcome |-> "set"]
    ELSE IF lower(parts[2]) \in ToggleOff
         THEN [config |-> [c EXCEPT ![field] = Stored(field, PyBool(FALSE))],
               outcome |-> "set"]
    ELSE [config |-> c, outcome |-> "usage"]

\* handle_command on the split line `parts` (at least one word): the
\* configuration it leaves and whether the prompt goes on
handle_command(parts, c) ==
    LET command == lower(parts[1])
        field == CommandField(command)
    IN  IF command \in {"/quit", "/exit", "/q"}
           THEN [config |-> c, outcome |-> "quit", continue |-> FALSE]
        ELSE IF command \in {"/help", "/h"}
           THEN [config |-> c, outcome |-> "help", continue |-> TRUE]
        ELSE IF command \in {"/status", "/s"}
           THEN [config |-> c, outcome |-> "status", continue |-> TRUE]
        ELSE IF field = ""
           THEN [config |-> c, outcome |-> "unknown", continue |-> TRUE]
        ELSE IF field \in BoolFields
           THEN LET r == handle_toggle_command(parts, field, c)
                IN  [config |-> r.config, outcome |-> r.outcome,
                     continue |-> TRUE]
        ELSE LET r == handle_numeric_command(parts, field, c)
             IN  [config |-> r.config, outcome |-> r.outcome,
                  continue |-> TRUE]

\* command words typed at the prompt
CommandWords ==
    {"/noise_reduction", "/nr", "/NR", "/voice_low", "/vl", "/voice_high",
     "/vh", "/voice_gain", "/vg", "/spectral_gate", "/sg",
     "/stationary_threshold", "/st", "/bandpass", "/bp", "/spectral_gating",
     "/spg", "/stationary", "/stat", "/noise", "/quit", "/Quit", "/exit", "/q",
     "/help", "/h", "/status", "/s", "/bogus", "quit"}

\* arguments typed after a command word: every kind of argument after one
\* word of each command (and every toggle word after /bp), one argument
\* that is stored after the command's other words.  The values stored by
\* /sg, /st, /spg and /stat are the ones the configuration starts with.
CommandArgs(word) ==
    LET field == CommandField(lower(word))
    IN  CASE word = "/nr" -> {"-0.5", "0.5", "1", "1.5", "abc"}
          [] field = "prop_decrease" -> {"0.5"}
          [] word \in {"/vl", "/vh"} ->
                 {"-1", "0", "1", "2", "3", "4", "5", "abc", "nan"}
          [] field \in {"voice_low_freq", "voice_high_freq"} -> {"1"}
          [] word = "/vg" -> {"-21", "-20", "21", "on"}
          [] field = "voice_gain_db" -> {"-20"}
          [] word = "/sg" -> {"-35", "abc"}
          [] field = "spectral_gate_threshold_db" -> {"-35"}
          [] word = "/st" -> {"2.5", "abc"}
          [] field = "n_std_thresh_stationary" -> {"2.5"}
          [] word = "/bp" ->
                 {"on", "ON", "1", "true", "enable", "off", "Off", "0",
                  "false", "disable", "maybe", "2"}
          [] word = "/noise" -> {"on", "off", "maybe"}
          [] word = "/spg" -> {"off", "maybe"}
          [] word \in {"/stat", "/stationary"} -> {"on", "maybe"}
          [] field \in BoolFields -> {"off"}
          [] OTHER -> {"1"}

\* the non-blank lines typed at the prompt, split into words
Lines ==
    {<<w>> : w \in CommandWords}
        \cup UNION {{<<w, a>> : a \in CommandArgs(w)} : w \in CommandWords}

\* cli.py lines 152-156: parse_arguments lets the two cutoffs through
\* unless low >= high, low < 0 or high > SAMPLE_RATE / 2
parse_arguments_accepts(low, high) ==
    /\ ~ge(low, high)
    /\ ~(lt(low, 0) \/ gt(high, Nyquist))

\* values given to --voice-low and to --voice-high
VoiceLowArgs == {NaN} \cup {k * 100 : k \in -1..(SAMPLE_RATE \div 2 - 1)}
VoiceHighArgs == {NaN} \cup {k * 100 : k \in 1..(SAMPLE_RATE \div 2 + 1)}

\* main() starts with the cutoffs parse_arguments let through
CmdInit ==
    /\ \E lo \in VoiceLowArgs : \E hi \in VoiceHighArgs :
          /\ parse_arguments_accepts(lo, hi)
          /\ config = [DefaultConfig(1) EXCEPT !.voice_low_freq = lo,
                                               !.voice_high_freq = hi]
    /\ cfg = DefaultConfig(1) /\ samples_needed = 1
    /\ ProcIdleRest
    /\ QueueIdle /\ CallbackIdle /\ LifeIdle /\ ConfigIdle /\ UdpIdle
    /\ PipeIdle

\* a step of the command thread touches the configuration, the flag and
\* the thread's own position
CmdOnly ==
    UNCHANGED <<qvars, cbvars, cfg, parest, main_pc, stream,
                main_failed, udp_pc, sock, lp_pc, udp_last,
                lp_last, lock, ga_pc, ga_i, snap, ga_instants, ga_returned,
                udpvars, pipevars>>

\* the ranges the command table documents
InDocumentedRange(field, v, c) ==
    CASE field = "prop_decrease" -> le(0, v) /\ le(v, 100)
      [] field = "voice_low_freq" -> le(0, v) /\ lt(v, c.voice_high_freq)
      [] field = "voice_high_freq" ->
             lt(c.voice_low_freq, v) /\ le(v, Nyquist)
      [] field = "voice_gain_db" -> le(-2000, v) /\ le(v, 2000)
      [] OTHER -> TRUE

\* the kind of line the user typed, by the command table (not by what
\* handle_command makes of it)
LineKind(parts, c) ==
    LET command == lower(parts[1])
        field == CommandField(command)
    IN  IF command \in {"/quit", "/exit", "/q"} THEN "quit"
        ELSE IF command \in {"/help", "/h", "/status", "/s"} THEN "query"
        ELSE IF field = "" THEN "unknown_command"
        ELSE IF Len(parts) < 2 THEN "missing_argument"
        ELSE IF field \in BoolFields
           THEN IF parts[2] \in {"on", "off"} THEN "well_formed"
                ELSE IF lower(parts[2]) \in ToggleOn \cup ToggleOff
                   THEN "toggle_synonym"
                ELSE "toggle_other_word"
        ELSE IF ~IsFloat(parts[2]) THEN "non_numeric"
        ELSE IF ~InDocumentedRange(field, float(parts[2]), c)
           THEN "out_of_range"
        ELSE "well_formed"

\* commands.py lines 187, 194-197: input() returns the line `parts` to the
\* thread that waited for it, whatever the flag has become since the loop
\* test of line 184; handle_command answers it
HandleLine(parts) ==
    /\ cmd_pc = "input"
    /\ LET r == handle_command(parts, config)
       IN  /\ config' = r.config
           /\ cmd_outcome' = <<r.outcome, LineKind(parts, config)>>
           /\ running' = IF r.continue THEN running ELSE FALSE
           /\ cmd_pc' = IF r.continue THEN "check" ELSE "done"
           /\ cmd_last' = IF r.continue THEN "line" ELSE "quit"
    /\ CmdOnly

\* lines 186, 194-198: input() returns a non-blank line
command_input_handle == \E parts \in Lines : HandleLine(parts)

\* line 194: `if cmd.strip()` skips a blank line
command_input_blank ==
    /\ cmd_pc = "input"
    /\ cmd_outcome' = <<"blank", "blank">>
    /\ cmd_pc' = "check"
    /\ cmd_last' = "line"
    /\ UNCHANGED <<config, running>>
    /\ CmdOnly

\* the loop test of line 184 is command_input_check; input() may also end
\* without a line (command_input_eof, command_input_interrupt);
\* signal_handler may clear the flag at any time, also while the thread
\* waits in input()
CmdNext ==
    \/ command_input_check
    \/ command_input_handle
    \/ command_input_blank
    \/ command_input_eof
    \/ command_input_interrupt
    \/ signal_handler

SpecCmd == CmdInit /\ [][CmdNext]_vars

\* 0 <= low cutoff < high cutoff <= Nyquist
CutoffsOrdered(c) ==
    /\ le(0, c.voice_low_freq)
    /\ lt(c.voice_low_freq, c.voice_high_freq)
    /\ le(c.voice_high_freq, Nyquist)

\* C15: from a configuration with 0 <= low cutoff < high cutoff <= Nyquist
\* every step leads to a configuration with 0 <= low cutoff < high cutoff
\* <= Nyquist, and a step that stores a cutoff leaves the two so ordered
\* whatever they were.
C15_CutoffOrder ==
    /\ [][CutoffsOrdered(config) => CutoffsOrdered(config')]_vars
    /\ [][(config'.voice_low_freq # config.voice_low_freq
              \/ config'.voice_high_freq # config.voice_high_freq)
            => CutoffsOrdered(config')]_vars

\* C15 witness: /voice_high stored the Nyquist frequency and /voice_low the
\* value just below it.
C15_Witness ==
    /\ cmd_outcome[1] = "set"
    /\ config.voice_high_freq = (SAMPLE_RATE \div 2) * 100
    /\ config.voice_low_freq = config.voice_high_freq - 100

\* the step in which input() gave the command thread a line (not
\* EOFError, not KeyboardInterrupt) and the thread dealt with it
HandlesLine ==
    /\ cmd_pc = "input" /\ cmd_pc' # "input"
    /\ cmd_last' \in {"line", "quit"}

\* C16 as stated: an unknown command, a missing argument, a non-numeric
\* value, an out-of-range value or a toggle word that is neither on nor off
\* leaves every configuration field and the lifecycle flag unchanged.
C16_RejectedNoChange ==
    [][(/\ HandlesLine
        /\ cmd_outcome'[2] \in {"unknown_command", "missing_argument",
                                "non_numeric", "out_of_range",
                                "toggle_synonym", "toggle_other_word"})
          => (config' = config /\ running' = running)]_vars

\* C16 amended: the same, for a toggle word that in lower case is none of
\* on, 1, true, enable, off, 0, false, disable.
C16_RejectedNoChangeSynonyms ==
    [][(/\ HandlesLine
        /\ cmd_outcome'[2] \in {"unknown_command", "missing_argument",
                                "non_numeric", "out_of_range",
                                "toggle_other_word"})
          => (config' = config /\ running' = running)]_vars

\* C16 witness: after commands changed the configuration, a command was
\* answered with its range error and the prompt is still running.
C16_Witness ==
    /\ cmd_outcome = <<"range_error", "out_of_range">> /\ running
    /\ config.prop_decrease = 50 /\ config.use_bandpass = FALSE

\* C20: when a stage raises while a raw frame is processed, nothing is
\* pushed for that frame, the frame is not processed again, and the loop goes
\* on to the next raw frame for as long as the flag is set.
C20_ErrorDropsFrame ==
    /\ [](\A i \in 1..Len(pa_out) : pa_out[i] \notin pa_raised)
    /\ []((pa_pc \in {"snapshot", "chunk", "put"}) => frames_in \notin pa_raised)
    /\ [](pa_pc = "done" => ~running)
    /\ [][pa_errors' # pa_errors
             => (pa_pc' = "check" /\ pa_out' = pa_out)]_vars
    /\ [][(pa_pc = "check" /\ running /\ pa_pc' # pa_pc) => pa_pc' = "get"]_vars

\* C20 witness: frame 1 raised, frame 2 was then processed and pushed, and
\* the flag is still set.
C20_Witness ==
    /\ pa_raised = {1} /\ pa_out = <<2>> /\ running /\ pa_errors = 1

\* process_audio_chunk has run for the frame dequeued last
TraceCurrent == frames_in > 0 /\ pa_trace.id = frames_in

\* C22: the snapshot changes only in the step after a frame is dequeued,
\* where it takes the configuration's value, and every stage of the frame
\* (master switch, bandpass, reduction, gating, gain) acts on that snapshot,
\* whatever the setters have written since.
C22_OneSnapshotPerFrame ==
    /\ [][cfg' # cfg => (pa_pc = "snapshot" /\ cfg' = config)]_vars
    /\ [](TraceCurrent =>
            /\ pa_trace.enabled = cfg.noise_reduction_enabled
            /\ pa_trace.enabled =>
                  /\ (pa_trace.bandpass = "off") <=> ~cfg.use_bandpass
                  /\ pa_trace.bandpass # "off" =>
                         bandpass_filter_cache_key =
                             <<cfg.voice_low_freq, cfg.voice_high_freq,
                               SAMPLE_RATE>>
                  /\ pa_trace.nr # "none" =>
                         /\ pa_trace.prop_decrease = cfg.prop_decrease
                         /\ pa_trace.nr = "stationary" =>
                                /\ cfg.use_stationary_mode
                                /\ pa_trace.n_std = cfg.n_std_thresh_stationary
                  /\ pa_trace.raised \in {"none", "effects"} =>
                         /\ pa_trace.gating = cfg.use_spectral_gating
                         /\ pa_trace.gain = (cfg.voice_gain_db # 0))

\* C22 witness: after the snapshot, commands switched noise reduction off
\* and set a gain; the frame still went through every stage of its snapshot,
\* without gain.
C22_Witness ==
    /\ TraceCurrent /\ pa_pc = "put"
    /\ cfg.noise_reduction_enabled /\ ~config.noise_reduction_enabled
    /\ cfg.voice_gain_db = 0 /\ config.voice_gain_db = 600
    /\ pa_trace.enabled /\ ~pa_trace.gain /\ pa_trace.nr # "none"

(***************************************************************************)
(* SpecChunk: process_audio's cycle under any configuration snapshot       *)
(***************************************************************************)
\* the configurations the processing thread may find when it takes its
\* snapshot: the defaults, and the defaults after one kind of command (the
\* cutoffs 0 Hz and 0.01 Hz both clamp to 0.01 of Nyquist: no passband)
Snapshots(n) ==
    {DefaultConfig(n),
     [DefaultConfig(n) EXCEPT !.noise_reduction_enabled = FALSE],
     [DefaultConfig(n) EXCEPT !.use_stationary_mode = FALSE],
     [DefaultConfig(n) EXCEPT !.use_bandpass = FALSE],
     [DefaultConfig(n) EXCEPT !.voice_low_freq = 0],
     [DefaultConfig(n) EXCEPT !.voice_low_freq = 0, !.voice_high_freq = 1],
     [DefaultConfig(n) EXCEPT !.use_spectral_gating = TRUE,
                              !.voice_gain_db = 600]}

\* commands change the configuration, then line 177: cfg = config.get_all()
process_audio_snapshot_after_commands ==
    /\ pa_pc = "snapshot"
    /\ config' \in Snapshots(samples_needed)
    /\ cfg' = config'
    /\ pa_pc' = "chunk"
    /\ UNCHANGED <<audio_data, noise_samples, samples_collected,
                   samples_needed, noise_profile_initialized, noise_profile,
                   frames_in, pa_out, pa_errors, bpvars, processed_audio,
                   pa_trace, pa_raised>>
    /\ ProcOnly

ChunkNext ==
    \/ process_audio_while
    \/ process_audio_get
    \/ process_audio_snapshot_after_commands
    \/ process_audio_chunk
    \/ process_audio_chunk_raises
    \/ process_audio_put

SpecChunk == ProcInit /\ [][ChunkNext]_vars

\* C17: a frame whose snapshot has noise reduction disabled comes out as the
\* input clipped to [-1,1], through no other stage, and leaves the
\* accumulator, its counter, the ready state, the profile and the bandpass
\* cache key and memory as they were.
C17_DisabledClipsOnly ==
    [][(pa_pc = "chunk" /\ pa_pc' # "chunk" /\ ~cfg.noise_reduction_enabled)
          => /\ pa_pc' = "put"
             /\ processed_audio'.stages = <<"finalize">>
             /\ Len(processed_audio'.samples) = Len(audio_data)
             /\ \A i \in 1..Len(audio_data) :
                   processed_audio'.samples[i] =
                       IF audio_data[i] > FullScale THEN FullScale
                       ELSE IF audio_data[i] < -FullScale THEN -FullScale
                       ELSE audio_data[i]
             /\ UNCHANGED <<noise_samples, samples_collected,
                            noise_profile_initialized, noise_profile,
                            bandpass_filter_cache_key,
                            bandpass_filter_state>>]_vars

\* C17 witness: a disabled frame was clipped at the negative limit while the
\* accumulator holds a frame and the bandpass filter has memory.
C17_Witness ==
    /\ pa_pc = "put" /\ ~cfg.noise_reduction_enabled
    /\ pa_trace.id = frames_in /\ ~pa_trace.enabled
    /\ processed_audio.samples # audio_data
    /\ processed_audio.samples[1] = -FullScale
    /\ Len(noise_samples) >= 1 /\ Len(bandpass_filter_state) >= 2

\* the last call of process_audio_chunk was for the current frame and got as
\* far as the reduction routine
ReductionInvoked == frames_in > 0 /\ pa_trace.id = frames_in /\ pa_trace.nr # "none"

\* C18: the reduction routine is invoked in stationary mode iff the snapshot
\* enables stationary mode, the profile is ready and the profile is at least
\* as long as the frame, with the profile's first len(frame) samples as
\* reference; otherwise in adaptive mode with no reference.  Once the
\* profile is complete it is at least as long as every frame.
C18_StationaryIff ==
    /\ ReductionInvoked =>
          /\ (pa_trace.nr = "stationary") <=>
                 (/\ cfg.use_stationary_mode
                  /\ noise_profile_initialized
                  /\ Len(noise_profile) >= Len(audio_data))
          /\ pa_trace.nr = "stationary" =>
                 pa_trace.y_noise = SubSeq(noise_profile, 1, Len(audio_data))
          /\ pa_trace.nr # "stationary" =>
                 (pa_trace.nr = "adaptive" /\ pa_trace.y_noise = <<>>)
    /\ (noise_profile_initialized /\ frames_in > 0) =>
          Len(noise_profile) >= Len(audio_data)

\* C18 witness: the frame that completed a profile of one frame was itself
\* reduced in stationary mode against the whole profile.
C18_Witness ==
    /\ ReductionInvoked /\ pa_trace.nr = "stationary"
    /\ samples_needed = 1 /\ noise_samples = <<audio_data>>
    /\ pa_trace.y_noise = audio_data /\ Len(audio_data) = FrameLen

\* the step is a call of the bandpass stage
BandpassCalled ==
    /\ pa_trace'.id # pa_trace.id
    /\ pa_trace'.enabled
    /\ pa_trace'.bandpass # "off"

\* memory as lfilter_zi leaves it: no frame has gone through it
FreshMemory == <<0>>

\* C23: only a call of the bandpass stage changes the filter memory; a call
\* that filters starts from the memory the previous call left when its
\* (low, high, sample rate) tuple is that call's tuple, and from fresh
\* memory, holding no earlier frame, when the tuple differs; a call that
\* completes leaves that memory with its own frame added.
C23_MemoryWhileTupleUnchanged ==
    /\ [][(bandpass_filter_state' # bandpass_filter_state
               \/ bandpass_filter_cache_key' # bandpass_filter_cache_key)
            => BandpassCalled]_vars
    /\ [][(BandpassCalled /\ pa_trace'.bandpass = "filtered")
            => /\ pa_trace'.zi =
                     IF bandpass_filter_cache_key' = bandpass_filter_cache_key
                        THEN bandpass_filter_state
                        ELSE FreshMemory
               /\ bandpass_filter_state' =
                     IF pa_trace'.raised = "bandpass"
                        THEN pa_trace'.zi
                        ELSE Append(pa_trace'.zi, pa_trace'.id)]_vars

\* C23 witness: the third frame was filtered under another tuple than the
\* frames before it and started from fresh memory; the fourth, under the
\* third's tuple, started from the memory the third left.
C23_Witness ==
    /\ pa_trace.id = 4 /\ pa_trace.bandpass = "filtered"
    /\ pa_trace.zi = <<0, 3>>
    /\ bandpass_filter_state = <<0, 3, 4>>

(***************************************************************************)
(* SpecUdp: receive_udp_audio's reassembly of datagrams into frames        *)
(***************************************************************************)
\* line 24: AUDIO_BUFFER_SIZE * SAMPLE_WIDTH
FrameBytes == AUDIO_BUFFER_SIZE * SAMPLE_WIDTH

\* the byte at position p (from 1) of the sender's stream
ByteAt(p) == (p * 37 + 200) % 256

\* a datagram of n bytes sent when `sent` bytes were sent before it
Payload(sent, n) == [i \in 1..n |-> ByteAt(sent + i)]

\* line 25: chunk = buffer[:AUDIO_BUFFER_SIZE * SAMPLE_WIDTH]
TakeFrame(b) == SubSeq(b, 1, Min(FrameBytes, Len(b)))

\* line 26: buffer = buffer[AUDIO_BUFFER_SIZE * SAMPLE_WIDTH:]
DropFrame_overlap(b) == SubSeq(b, FrameBytes, Len(b))
DropFrame(b) == SubSeq(b, FrameBytes + 1, Len(b))

\* line 28: np.frombuffer(chunk, dtype=np.int16).astype(np.float32) / 32768.0
\* (little-endian host); a sample is kept as its numerator over 32768
frombuffer_int16(chunk) ==
    [i \in 1..(Len(chunk) \div 2) |->
        LET u == chunk[2 * i - 1] + 256 * chunk[2 * i]
        IN  IF u >= 32768 THEN u - 65536 ELSE u]

UdpInit ==
    QueueIdle /\ CallbackIdle /\ ProcIdle /\ LifeIdle /\ ConfigIdle /\ UdpIdle
    /\ PipeIdle

\* a step of the receiver touches nothing else
UdpOnly == UNCHANGED <<qvars, cbvars, pavars, lifevars, cfgvars, pipevars>>

\* lines 21-22: data, addr = sock.recvfrom(BUFFER_SIZE); buffer += data
receive_udp_audio_recvfrom ==
    /\ rx_pc = "recv" /\ datagrams < MaxDatagrams
    /\ \E n \in 0..BUFFER_SIZE :
          LET data == Payload(Len(udp_stream), n)
          IN  /\ buffer' = buffer \o data
              /\ udp_stream' = udp_stream \o data
    /\ datagrams' = datagrams + 1
    /\ rx_pc' = "slice"
    /\ UNCHANGED emitted
    /\ UdpOnly

\* lines 24-30: one pass of the inner while: a frame is cut off the buffer,
\* decoded and handed to put_with_drop_on_full
receive_udp_audio_slice ==
    /\ rx_pc = "slice" /\ Len(buffer) >= FrameBytes
    /\ emitted' = Append(emitted, frombuffer_int16(TakeFrame(buffer)))
    /\ buffer' = DropFrame(buffer)
    /\ UNCHANGED <<rx_pc, udp_stream, datagrams>>
    /\ UdpOnly

\* line 24: the inner while ends, back to recvfrom
receive_udp_audio_sliced ==
    /\ rx_pc = "slice" /\ Len(buffer) < FrameBytes
    /\ rx_pc' = "recv"
    /\ UNCHANGED <<buffer, udp_stream, emitted, datagrams>>
    /\ UdpOnly

UdpNext ==
    \/ receive_udp_audio_recvfrom
    \/ receive_udp_audio_slice
    \/ receive_udp_audio_sliced

SpecUdp == UdpInit /\ [][UdpNext]_vars

\* C19: once a datagram has been handled, the frames emitted so far are the
\* consecutive frame-size slices of all payload bytes in arrival order, each
\* of the fixed frame length, and the accumulator holds the bytes left over,
\* fewer than one frame.
C19_Reassembly ==
    rx_pc = "recv" =>
        /\ Len(emitted) = Len(udp_stream) \div FrameBytes
        /\ \A k \in 1..Len(emitted) :
              /\ Len(emitted[k]) = AUDIO_BUFFER_SIZE
              /\ emitted[k] =
                     frombuffer_int16(SubSeq(udp_stream, (k - 1) * FrameBytes + 1,
                                             k * FrameBytes))
        /\ buffer = SubSeq(udp_stream, Len(emitted) * FrameBytes + 1,
                           Len(udp_stream))
        /\ Len(buffer) < FrameBytes

\* C19 witness: three datagrams made two frames, the second frame out of
\* bytes of more than one datagram, and bytes are left over.
C19_Witness ==
    /\ rx_pc = "recv" /\ datagrams = 3 /\ Len(emitted) = 2
    /\ Len(udp_stream) = 2 * FrameBytes + 1 /\ Len(buffer) = 1

(***************************************************************************)
(* SpecPipe: the frames' way from the reassembler through raw_audio_queue, *)
(* process_audio and processed_audio_queue to audio_callback.  A frame is  *)
(* its number in emission order; what the stages do to its samples is in   *)
(* SpecProc and SpecChunk.  q is raw_audio_queue, filled by the            *)
(* put_with_drop_on_full steps of SpecQueue; the callback's steps are      *)
(* those of SpecCallback.                                                  *)
(***************************************************************************)
MaxPipeFrames == 4

\* <<capacity of raw_audio_queue, capacity of processed_audio_queue>>:
\* main()'s, and small ones that overflow within MaxPipeFrames frames
PipeCapacities == {<<RAW_MAXSIZE, PROC_MAXSIZE>>, <<1, 1>>, <<2, 1>>, <<1, 2>>}

PipeInit ==
    /\ q = <<>> /\ p_pc = "idle" /\ p_item = 0
    /\ p_calls = 0 /\ p_raised = FALSE /\ c_acted = FALSE
    /\ \E c \in PipeCapacities : maxsize = c[1] /\ proc_maxsize = c[2]
    /\ pp_pc = "get" /\ pp_item = 0
    /\ CallbackIdle /\ ProcIdle /\ LifeIdle /\ ConfigIdle /\ UdpIdle

\* a step of the relay touches nothing but the two queues and its own state
PipeOnly == UNCHANGED <<pavars, lifevars, cfgvars, udpvars>>

\* what process_audio_chunk returns for frame number id: one chunk that
\* carries the frame's number
Processed(id) == Chunk(id, 1)

\* udp_receiver.py line 30: the reassembler emits its next frame
receive_udp_audio_put ==
    /\ p_pc = "idle" /\ p_calls < MaxPipeFrames
    /\ p_calls' = p_calls + 1
    /\ p_item' = p_calls + 1
    /\ p_pc' = "put"
    /\ p_raised' = FALSE
    /\ UNCHANGED <<q, maxsize, c_acted>>
    /\ QueueOnly

\* audio_processor.py line 175: raw_audio_queue.get(timeout=1.0) returns
process_audio_raw_get ==
    /\ pp_pc = "get" /\ q # <<>>
    /\ pp_item' = Head(q)
    /\ q' = QAfterGet(q)
    /\ c_acted' = TRUE
    /\ pp_pc' = "chunk"
    /\ UNCHANGED <<maxsize, p_pc, p_item, p_calls, p_raised, proc_maxsize>>
    /\ UNCHANGED cbvars
    /\ PipeOnly

\* lines 177-181: the snapshot and process_audio_chunk, which returns
process_audio_relay ==
    /\ pp_pc = "chunk"
    /\ pp_pc' = "put"
    /\ UNCHANGED <<qvars, cbvars, pp_item, proc_maxsize>>
    /\ PipeOnly

\* lines 179-181, 187-189: process_audio_chunk raises; the frame is given up
process_audio_relay_raises ==
    /\ pp_pc = "chunk"
    /\ pp_pc' = "get"
    /\ UNCHANGED <<qvars, cbvars, pp_item, proc_maxsize>>
    /\ PipeOnly

\* the callback's part of cbvars
cbrest == <<audio_buffer, cb_pc, cb_frames, outdata, cb_entry_len,
            cb_deq_total, cb_zeros, cb_last_chunk, cb_max_chunk, cb_returned,
            fed, next_sample, cb_dequeued, cb_played>>

\* line 183, utils.py line 7: q.put(item, timeout) finds room
process_audio_put_room ==
    /\ pp_pc = "put" /\ QHasRoom(processed_audio_queue, proc_maxsize)
    /\ processed_audio_queue' =
           QAfterPut(processed_audio_queue, Processed(pp_item))
    /\ pp_pc' = "get"
    /\ UNCHANGED <<qvars, cbrest, pp_item, proc_maxsize>>
    /\ PipeOnly

\* utils.py lines 7-8: the processed queue stayed full, queue.Full
process_audio_put_full ==
    /\ pp_pc = "put" /\ ~QHasRoom(processed_audio_queue, proc_maxsize)
    /\ pp_pc' = "get_nowait"
    /\ UNCHANGED <<qvars, cbvars, pp_item, proc_maxsize>>
    /\ PipeOnly

\* utils.py line 10: q.get_nowait() removes the oldest processed frame
process_audio_put_get_nowait ==
    /\ pp_pc = "get_nowait" /\ processed_audio_queue # <<>>
    /\ processed_audio_queue' = QAfterGet(processed_audio_queue)
    /\ pp_pc' = "put2"
    /\ UNCHANGED <<qvars, cbrest, pp_item, proc_maxsize>>
    /\ PipeOnly

\* utils.py lines 10, 12-13: the callback emptied the queue meanwhile;
\* queue.Empty, `pass`: the frame is given up
process_audio_put_empty ==
    /\ pp_pc = "get_nowait" /\ processed_audio_queue = <<>>
    /\ pp_pc' = "get"
    /\ UNCHANGED <<qvars, cbvars, pp_item, proc_maxsize>>
    /\ PipeOnly

\* utils.py line 11: the second q.put(item, timeout); its queue.Full would
\* reach process_audio's `except Exception`
process_audio_put2 ==
    /\ pp_pc = "put2"
    /\ processed_audio_queue' =
           IF QHasRoom(processed_audio_queue, proc_maxsize)
              THEN QAfterPut(processed_audio_queue, Processed(pp_item))
              ELSE processed_audio_queue
    /\ pp_pc' = "get"
    /\ UNCHANGED <<qvars, cbrest, pp_item, proc_maxsize>>
    /\ PipeOnly

PipeNext ==
    \/ receive_udp_audio_put
    \/ put_with_drop_on_full_put
    \/ put_with_drop_on_full_full
    \/ put_with_drop_on_full_get_nowait
    \/ put_with_drop_on_full_empty
    \/ put_with_drop_on_full_put2
    \/ process_audio_raw_get
    \/ process_audio_relay
    \/ process_audio_relay_raises
    \/ process_audio_put_room
    \/ process_audio_put_full
    \/ process_audio_put_get_nowait
    \/ process_audio_put_empty
    \/ process_audio_put2
    \/ audio_callback_enter
    \/ audio_callback_get_nowait
    \/ audio_callback_empty
    \/ audio_callback_loop_exit
    \/ audio_callback_deliver

SpecPipe == PipeInit /\ [][PipeNext]_vars

\* C26: the frames the callback has dequeued are frames the reassembler
\* emitted, each at most once and in emission order.
C26_OrderPreserved ==
    /\ \A i \in 1..Len(cb_dequeued) : cb_dequeued[i] \in 1..p_calls
    /\ \A i, j \in 1..Len(cb_dequeued) :
          i < j => cb_dequeued[i] < cb_dequeued[j]

\* C26 witness: the callback has dequeued two frames that were not emitted
\* one after the other: a frame between them was dropped.
C26_Witness ==
    /\ Len(cb_dequeued) >= 2
    /\ cb_dequeued[2] > cb_dequeued[1] + 1

====
